---- MODULE Spec2Model ----
(***************************************************************************)
(* Dou Dizhu over PeerJS: the host's game state machine, the play          *)
(* validator, the bot policy and the host/guest replication, modelled from *)
(* src/App.tsx, src/unnamed/part_000 (utils/pokerLogic) and                *)
(* src/unnamed/part_002 (constants).                                       *)
(*                                                                         *)
(* A card is its deck index 0..53 (the n of the id `card-n`); value and    *)
(* rank follow from the index as createDeck assigns them.  Indices into    *)
(* players are 0-based as in the source; TLA+ sequences are 1-based, so    *)
(* players[i + 1] is the source's players[i].                              *)
(*                                                                         *)
(* Every handler of the React component reads `gameState` from the render  *)
(* closure it was created in.  The model passes that closure value to the  *)
(* transition operators explicitly (parameter gs): the current state for a *)
(* handler called from the host's own UI, the state captured when the      *)
(* timer was scheduled for a setTimeout callback, and the state captured   *)
(* by initHost for the PeerJS connection callbacks.                        *)
(*                                                                         *)
(* Not modelled: name, ready, lastAction (display only), deck (always []   *)
(* once set), selectedCards (a play is the selection submitted), the two   *)
(* check boxes of the set-up screen (their values at the click are the     *)
(* arguments of InitHost, and the guest branch's copies of them are not    *)
(* kept), the advice service and the two buttons that reload the page (the *)
(* App starts again from Init).                                            *)
(***************************************************************************)
EXTENDS Integers, Sequences, FiniteSets, TLC

\* ------------------------------------------------------------------ bounds
NumShuffles == 1
MaxLaiziDraw == 0
NumGuests == 1
MaxBots == 5
MaxNetInputs == 3
MaxBotSteps == 3
MaxQueue == 1
MaxDealTimers == 2
NumTableShuffles == 3
MaxTableInputs == 4
MaxPeers == 2
MaxJoins == 2
MaxRooms == 1
MaxRoomPeers == 2
MaxBotsDeals == 1
MaxReopenInputs == 3
MaxRounds == 2
MaxTableRounds == 1
MaxRoomInputs == 1
MaxJoinInputs == 3
MaxJoinBotSteps == 1

\* --------------------------------------------------------------- constants
INITIAL_BEANS == 10000
DeckSize == 54
Seats == 3

NULL == "null"
NoRank == 0

Lobby == "LOBBY"
Dealing == "DEALING"
Bidding == "BIDDING"
Playing == "PLAYING"
GameOver == "GAMEOVER"

Landlord == "LANDLORD"
Peasant == "PEASANT"

HostId == "H"
\* The id PeerJS gives to the k-th peer made by initHost (its room code) and
\* to the j-th peer made by initGuestAndJoin; the host of the room joined.
PeerIdOf(k) == IF k = 1 THEN HostId ELSE HostId \o ToString(k)
JoinId(j) == IF j = 1 THEN "X" ELSE "X" \o ToString(j)
JoinConn(j) == "J" \o ToString(j)
RemoteId == "R"
Guests == {"G" \o ToString(n) : n \in 1..NumGuests}
BotId(n) == "BOT-" \o ToString(n)

\* ------------------------------------------------------------ cards, deck
\* createDeck: 13 ranks x 4 suits in rank order, then the two jokers.
CardValue(c) == IF c < 52 THEN 3 + (c \div 4) ELSE c - 36

\* Rank enum: Three = 3 .. Two = 15, SmallJoker = 16, BigJoker = 17.
CardRank(c) == IF c < 52 THEN 3 + (c \div 4) ELSE c - 36

createDeck == [i \in 1..DeckSize |-> i - 1]

\* The draws Math.floor(Math.random() * (i + 1)) of one shuffle, i = 53..1:
\* a small family of draw sequences indexed by n.
RandomDraw(n, i) == ((14 + 37 * n) * (i + 3) + ((i * i) % 7)) % (i + 1)

Swap(s, a, b) == [s EXCEPT ![a] = s[b], ![b] = s[a]]

RECURSIVE FisherYates(_, _, _)
FisherYates(deck, i, n) ==
  IF i < 1 THEN deck
  ELSE FisherYates(Swap(deck, i + 1, RandomDraw(n, i) + 1), i - 1, n)

shuffleDeck(deck, n) == FisherYates(deck, Len(deck) - 1, n)

\* slice(a, b) of the source: elements a .. b-1 (0-based).
Slice(s, a, b) == SubSeq(s, a + 1, IF b > Len(s) THEN Len(s) ELSE b)

RECURSIVE SortDesc(_, _)
SortDesc(hand, v) ==
  IF v < 3 THEN <<>>
  ELSE SelectSeq(hand, LAMBDA c : CardValue(c) = v) \o SortDesc(hand, v - 1)

\* sortHand: stable sort by value, descending.
sortHand(hand) == SortDesc(hand, 17)

RECURSIVE SortAsc(_, _)
SortAsc(hand, v) ==
  IF v > 17 THEN <<>>
  ELSE SelectSeq(hand, LAMBDA c : CardValue(c) = v) \o SortAsc(hand, v + 1)

Range(s) == {s[i] : i \in 1..Len(s)}

\* ---------------------------------------------------------- play validator
Laizis(cards, laiziRank) ==
  IF laiziRank # NoRank
    THEN SelectSeq(cards, LAMBDA c : CardRank(c) = laiziRank) ELSE <<>>

Normals(cards, laiziRank) ==
  IF laiziRank # NoRank
    THEN SelectSeq(cards, LAMBDA c : CardRank(c) # laiziRank) ELSE cards

\* effectiveCards without the substitution: every card keeps its own value.
EffectiveValues_ownValue(cards, laiziRank) ==
  [i \in 1..Len(cards) |-> CardValue(cards[i])]

\* The values of effectiveCards, in the order of cards.
EffectiveValues(cards, laiziRank) ==
  LET laizis == Laizis(cards, laiziRank)
      normals == Normals(cards, laiziRank)
  IN IF Len(laizis) > 0 /\ Len(normals) > 0
          /\ \A i \in 1..Len(normals) : CardValue(normals[i]) = CardValue(normals[1])
       THEN [i \in 1..Len(cards) |->
               IF CardRank(cards[i]) = laiziRank
                 THEN CardValue(normals[1]) ELSE CardValue(cards[i])]
       ELSE [i \in 1..Len(cards) |-> CardValue(cards[i])]

IsRocket(cards) ==
  Len(cards) = 2 /\ CardValue(cards[1]) >= 16 /\ CardValue(cards[2]) >= 16

RawBomb(cards) ==
  Len(cards) = 4 /\ \A i \in 1..4 : CardValue(cards[i]) = CardValue(cards[1])

isValidPlay(cards, lastCards, laiziRank) ==
  IF Len(cards) = 0 THEN FALSE
  ELSE
    LET eff == EffectiveValues(cards, laiziRank)
        isUniform == \A i \in 1..Len(eff) : eff[i] = eff[1]
        isRocket == IsRocket(cards)
        lastIsRocket == IsRocket(lastCards)
        lastIsBomb == RawBomb(lastCards)
        isBomb == Len(eff) = 4 /\ isUniform
    IN IF Len(lastCards) = 0 THEN (isRocket \/ isUniform)
       ELSE IF isRocket THEN TRUE
       ELSE IF lastIsRocket THEN FALSE
       ELSE IF isBomb
              THEN (IF ~lastIsBomb THEN TRUE
                    ELSE eff[1] > CardValue(lastCards[1]))
       ELSE IF lastIsBomb THEN FALSE
       ELSE IF Len(cards) # Len(lastCards) THEN FALSE
       ELSE isUniform /\ eff[1] > CardValue(lastCards[1])

\* ----------------------------------------------------------------- bot policy
\* groupCards: groups[v] is the cards of value v, in hand order.
groupCards(hand) ==
  [v \in 3..17 |-> SelectSeq(hand, LAMBDA c : CardValue(c) = v)]

\* The least element of a set of values, or 0 for the empty set: the first
\* hit of a loop over the group keys in ascending order.
MinOrZero(S) == IF S = {} THEN 0 ELSE CHOOSE v \in S : \A w \in S : v <= w

\* getBotMove that follows with the empty play whatever it holds.
getBotMove_neverFollows(hand, lastPlayed, laiziRank) ==
  IF Len(lastPlayed) = 0 THEN <<SortAsc(hand, 3)[1]>> ELSE <<>>

\* hand is non-empty when leading (see BotPlayThrows).
getBotMove(hand, lastPlayed, laiziRank) ==
  IF Len(lastPlayed) = 0 THEN <<SortAsc(hand, 3)[1]>>
  ELSE
    LET groups == groupCards(hand)
        lastVal == CardValue(lastPlayed[1])
        lastLen == Len(lastPlayed)
        lastIsRocket == IsRocket(lastPlayed)
        lastIsBomb == RawBomb(lastPlayed)
        isUniformLast ==
          \A i \in 1..lastLen : CardValue(lastPlayed[i]) = lastVal
        beat == IF isUniformLast /\ ~lastIsBomb
                  THEN MinOrZero({v \in 3..17 : Len(groups[v]) > 0
                         /\ v > lastVal /\ Len(groups[v]) >= lastLen})
                  ELSE 0
        bomb == MinOrZero({v \in 3..17 : Len(groups[v]) = 4
                  /\ (~lastIsBomb \/ v > lastVal)})
        sj == SelectSeq(hand, LAMBDA c : CardValue(c) = 16)
        bj == SelectSeq(hand, LAMBDA c : CardValue(c) = 17)
    IN IF lastIsRocket THEN <<>>
       ELSE IF beat # 0 THEN SubSeq(groups[beat], 1, lastLen)
       ELSE IF bomb # 0 THEN groups[bomb]
       ELSE IF Len(sj) > 0 /\ Len(bj) > 0 THEN <<sj[1], bj[1]>>
       ELSE <<>>

RECURSIVE SumSeq(_)
SumSeq(s) == IF Len(s) = 0 THEN 0 ELSE s[1] + SumSeq(Tail(s))

BidScore(hand) ==
  LET groups == groupCards(hand)
      high == SumSeq([i \in 1..Len(hand) |->
                (IF CardValue(hand[i]) >= 15 THEN 2 ELSE 0)
                + (IF CardValue(hand[i]) >= 13 /\ CardValue(hand[i]) < 15
                     THEN 1 ELSE 0)])
      bombs == Cardinality({v \in 3..17 : Len(groups[v]) = 4})
  IN high + 3 * bombs

\* getBotBid with the thresholds applied to the score without the bonus of 3
\* per four-of-a-kind.
getBotBid_noBombBonus(hand) ==
  LET score == BidScore(hand)
                 - 3 * Cardinality({v \in 3..17 : Len(groupCards(hand)[v]) = 4})
  IN IF score > 6 THEN 3
     ELSE IF score > 4 THEN 2
     ELSE IF score > 2 THEN 1
     ELSE 0

getBotBid(hand) ==
  LET score == BidScore(hand)
  IN IF score > 6 THEN 3
     ELSE IF score > 4 THEN 2
     ELSE IF score > 2 THEN 1
     ELSE 0

\* ------------------------------------------------------------- game state
\* useState<GameState> initial value.
InitialGameState ==
  [phase |-> Lobby, players |-> <<>>, currentTurnIndex |-> 0,
   landlordId |-> NULL, baseBid |-> 0, multiplier |-> 1,
   lastPlayedCards |-> <<>>, lastPlayerId |-> NULL, kittyCards |-> <<>>,
   winnerId |-> NULL, laiziRank |-> NoRank,
   config |-> [enableLaizi |-> FALSE, isDedicated |-> FALSE]]

NewPlayer(id, bot) ==
  [id |-> id, hand |-> <<>>, role |-> Peasant, beans |-> INITIAL_BEANS,
   isBot |-> bot]

\* players.findIndex(p => p.id === id): 0-based, -1 when absent.
FindIndex(players, id) ==
  LET S == {i \in 1..Len(players) : players[i].id = id}
  IN IF S = {} THEN -1 ELSE (CHOOSE i \in S : \A j \in S : i <= j) - 1

\* What one handler call does: the value it passes to setGameState (at most
\* one; the last one wins), whether it goes through broadcastState, and the
\* setTimeout callbacks it schedules.
NoChange == [set |-> <<>>, send |-> FALSE, timers |-> <<>>]
Broadcast(s) == [set |-> <<s>>, send |-> TRUE, timers |-> <<>>]
SetOnly(s) == [set |-> <<s>>, send |-> FALSE, timers |-> <<>>]

\* handleData, JOIN_REQUEST branch.
JoinRequest(gs, fromPeerId) ==
  IF FindIndex(gs.players, fromPeerId) # -1 THEN NoChange
  ELSE IF Len(gs.players) >= 3 THEN NoChange
  ELSE Broadcast([gs EXCEPT
         !.players = Append(gs.players, NewPlayer(fromPeerId, FALSE))])

addBot(gs, botId) ==
  IF Len(gs.players) >= 3 THEN NoChange
  ELSE Broadcast([gs EXCEPT
         !.players = Append(gs.players, NewPlayer(botId, TRUE))])

Shuffles == 0..(NumShuffles - 1)
TableShuffles == 0..(NumTableShuffles - 1)

\* Deal with the third hand cut one card early (slice(33, 50)).
Deal_earlyCut ==
  [n \in Shuffles \cup TableShuffles |->
     LET deck == shuffleDeck(createDeck, n)
     IN [p1Hand |-> sortHand(Slice(deck, 0, 17)),
         p2Hand |-> sortHand(Slice(deck, 17, 34)),
         p3Hand |-> sortHand(Slice(deck, 33, 50)),
         kitty |-> Slice(deck, 51, DeckSize)]]

\* Lines 346-350 of startNewGame for each shuffle n: the deck is cut into
\* three sorted hands of 17 and a kitty of the rest.
Deal ==
  [n \in Shuffles \cup TableShuffles |->
     LET deck == shuffleDeck(createDeck, n)
     IN [p1Hand |-> sortHand(Slice(deck, 0, 17)),
         p2Hand |-> sortHand(Slice(deck, 17, 34)),
         p3Hand |-> sortHand(Slice(deck, 34, 51)),
         kitty |-> Slice(deck, 51, DeckSize)]]

\* n selects the shuffle's draws, turn is Math.floor(Math.random() * 3).
\* The setTimeout callback spreads the gameState of the closure that called
\* startNewGame, so the state it will broadcast is fixed when it is scheduled.
startNewGame(gs, players, n, turn) ==
  LET p1Hand == Deal[n].p1Hand
      p2Hand == Deal[n].p2Hand
      p3Hand == Deal[n].p3Hand
      kitty == Deal[n].kitty
      updatedPlayers ==
        [i \in 1..Len(players) |->
           [players[i] EXCEPT
              !.hand = IF i = 1 THEN p1Hand ELSE IF i = 2 THEN p2Hand ELSE p3Hand,
              !.role = Peasant]]
      dealing == [gs EXCEPT
                    !.phase = Dealing, !.players = updatedPlayers,
                    !.kittyCards = kitty, !.landlordId = NULL,
                    !.baseBid = 0, !.multiplier = 1,
                    !.currentTurnIndex = turn,
                    !.lastPlayedCards = <<>>, !.lastPlayerId = NULL,
                    !.winnerId = NULL, !.laiziRank = NoRank]
      bidding == [gs EXCEPT
                    !.phase = Bidding, !.players = updatedPlayers,
                    !.kittyCards = kitty,
                    !.currentTurnIndex = gs.currentTurnIndex,
                    !.baseBid = 0, !.multiplier = 1,
                    !.lastPlayedCards = <<>>, !.lastPlayerId = NULL,
                    !.winnerId = NULL, !.laiziRank = NoRank]
  IN [set |-> <<dealing>>, send |-> TRUE, timers |-> <<bidding>>]

\* finalizeLandlord without the merge of kittyCards of lines 450-452.
finalizeLandlord_noKitty(gs, landlordId, bid, draw) ==
  LET updatedPlayers ==
        [i \in 1..Len(gs.players) |->
           IF gs.players[i].id = landlordId
             THEN [gs.players[i] EXCEPT !.role = Landlord]
             ELSE [gs.players[i] EXCEPT !.role = Peasant]]
      laizi == IF gs.config.enableLaizi THEN draw + 3 ELSE NoRank
  IN Broadcast([gs EXCEPT
       !.phase = Playing, !.players = updatedPlayers, !.baseBid = bid,
       !.landlordId = landlordId,
       !.currentTurnIndex = FindIndex(updatedPlayers, landlordId),
       !.laiziRank = laizi])

\* draw is Math.floor(Math.random() * 13).
finalizeLandlord(gs, landlordId, bid, draw) ==
  LET updatedPlayers ==
        [i \in 1..Len(gs.players) |->
           IF gs.players[i].id = landlordId
             THEN [gs.players[i] EXCEPT
                     !.role = Landlord,
                     !.hand = sortHand(gs.players[i].hand \o gs.kittyCards)]
             ELSE [gs.players[i] EXCEPT !.role = Peasant]]
      laizi == IF gs.config.enableLaizi THEN draw + 3 ELSE NoRank
  IN Broadcast([gs EXCEPT
       !.phase = Playing, !.players = updatedPlayers, !.baseBid = bid,
       !.landlordId = landlordId,
       !.currentTurnIndex = FindIndex(updatedPlayers, landlordId),
       !.laiziRank = laizi])

\* applyBid with baseBid and landlordId overwritten by every bid (without the
\* comparison of line 404).
applyBid_alwaysRaise(gs, playerId, amount, draw) ==
  LET nextTurn == (gs.currentTurnIndex + 1) % 3
  IN IF amount = 3 THEN finalizeLandlord(gs, playerId, 3, draw)
     ELSE Broadcast([gs EXCEPT
            !.baseBid = amount, !.landlordId = playerId,
            !.currentTurnIndex = nextTurn])

\* processBid after its turn check (lines 397-444).
applyBid(gs, playerId, amount, draw) ==
  LET raised == amount > gs.baseBid
      newBaseBid == IF raised THEN amount ELSE gs.baseBid
      newLandlordId == IF raised THEN playerId ELSE gs.landlordId
      nextTurn == (gs.currentTurnIndex + 1) % 3
  IN IF amount = 3 THEN finalizeLandlord(gs, newLandlordId, 3, draw)
     ELSE Broadcast([gs EXCEPT
            !.baseBid = newBaseBid, !.landlordId = newLandlordId,
            !.currentTurnIndex = nextTurn])

\* With playerIdx = currentTurnIndex = -1 the write to
\* updatedPlayers[-1].lastAction throws and the handler ends without a
\* state change.
processBid(gs, playerId, amount, draw) ==
  LET playerIdx == FindIndex(gs.players, playerId)
  IN IF playerIdx # gs.currentTurnIndex THEN NoChange
     ELSE IF playerIdx = -1 THEN NoChange
     ELSE applyBid(gs, playerId, amount, draw)

\* handleGameOver with the landlord's change not doubled.
handleGameOver_single(gs, winnerId, finalPlayers) ==
  LET winner == finalPlayers[FindIndex(finalPlayers, winnerId) + 1]
      isLandlordWin == winner.role = Landlord
      score == gs.baseBid * gs.multiplier * 100
      change(p) ==
        IF isLandlordWin
          THEN (IF p.role = Landlord THEN score ELSE 0 - score)
          ELSE (IF p.role = Landlord THEN 0 - score ELSE score)
      updatedPlayers ==
        [i \in 1..Len(finalPlayers) |->
           [finalPlayers[i] EXCEPT !.beans = finalPlayers[i].beans + change(finalPlayers[i])]]
  IN Broadcast([gs EXCEPT
       !.phase = GameOver, !.players = updatedPlayers, !.winnerId = winnerId])

handleGameOver(gs, winnerId, finalPlayers) ==
  LET winner == finalPlayers[FindIndex(finalPlayers, winnerId) + 1]
      isLandlordWin == winner.role = Landlord
      score == gs.baseBid * gs.multiplier * 100
      change(p) ==
        IF isLandlordWin
          THEN (IF p.role = Landlord THEN score * 2 ELSE 0 - score)
          ELSE (IF p.role = Landlord THEN (0 - score) * 2 ELSE score)
      updatedPlayers ==
        [i \in 1..Len(finalPlayers) |->
           [finalPlayers[i] EXCEPT !.beans = finalPlayers[i].beans + change(finalPlayers[i])]]
  IN Broadcast([gs EXCEPT
       !.phase = GameOver, !.players = updatedPlayers, !.winnerId = winnerId])

\* The table the play is judged against (line 476).
TableFor(gs, playerId) ==
  IF gs.lastPlayerId # NULL /\ gs.lastPlayerId # playerId
    THEN gs.lastPlayedCards ELSE <<>>

\* applyPlay with only the first of the played cards taken out of the hand.
applyPlay_firstCardOnly(gs, playerId, cards) ==
  LET playerIdx == FindIndex(gs.players, playerId)
      player == gs.players[playerIdx + 1]
      newHand == SelectSeq(player.hand,
                           LAMBDA c : Len(cards) = 0 \/ c # cards[1])
      updatedPlayers == [gs.players EXCEPT ![playerIdx + 1].hand = newHand]
      nextTurn == (gs.currentTurnIndex + 1) % 3
  IN IF Len(newHand) = 0
       THEN handleGameOver(gs, playerId, updatedPlayers)
     ELSE IF Len(cards) > 0
       THEN Broadcast([gs EXCEPT
              !.players = updatedPlayers, !.lastPlayedCards = cards,
              !.lastPlayerId = playerId, !.currentTurnIndex = nextTurn])
     ELSE IF nextTurn + 1 > Len(updatedPlayers) THEN NoChange
     ELSE IF updatedPlayers[nextTurn + 1].id = gs.lastPlayerId
       THEN Broadcast([gs EXCEPT
              !.players = updatedPlayers, !.lastPlayedCards = <<>>,
              !.currentTurnIndex = nextTurn])
     ELSE Broadcast([gs EXCEPT
            !.players = updatedPlayers, !.currentTurnIndex = nextTurn])

\* processPlay after its checks (lines 480-506).  updatedPlayers[nextTurn].id
\* throws on a pass when fewer than nextTurn + 1 players are seated: the
\* handler ends without a state change.
applyPlay(gs, playerId, cards) ==
  LET playerIdx == FindIndex(gs.players, playerId)
      player == gs.players[playerIdx + 1]
      newHand == SelectSeq(player.hand, LAMBDA c : c \notin Range(cards))
      updatedPlayers == [gs.players EXCEPT ![playerIdx + 1].hand = newHand]
      nextTurn == (gs.currentTurnIndex + 1) % 3
  IN IF Len(newHand) = 0
       THEN handleGameOver(gs, playerId, updatedPlayers)
     ELSE IF Len(cards) > 0
       THEN Broadcast([gs EXCEPT
              !.players = updatedPlayers, !.lastPlayedCards = cards,
              !.lastPlayerId = playerId, !.currentTurnIndex = nextTurn])
     ELSE IF nextTurn + 1 > Len(updatedPlayers) THEN NoChange
     ELSE IF updatedPlayers[nextTurn + 1].id = gs.lastPlayerId
       THEN Broadcast([gs EXCEPT
              !.players = updatedPlayers, !.lastPlayedCards = <<>>,
              !.currentTurnIndex = nextTurn])
     ELSE Broadcast([gs EXCEPT
            !.players = updatedPlayers, !.currentTurnIndex = nextTurn])

\* processPlay without the isValidPlay check of lines 475-478.
processPlay_noValidation(gs, playerId, cards) ==
  LET playerIdx == FindIndex(gs.players, playerId)
  IN IF playerIdx # gs.currentTurnIndex THEN NoChange
     ELSE IF playerIdx = -1 THEN NoChange
     ELSE applyPlay(gs, playerId, cards)

\* With playerIdx = currentTurnIndex = -1 the read of player.hand (line 480)
\* throws and the handler ends without a state change.
processPlay(gs, playerId, cards) ==
  LET playerIdx == FindIndex(gs.players, playerId)
  IN IF playerIdx # gs.currentTurnIndex THEN NoChange
     ELSE IF Len(cards) > 0
             /\ ~isValidPlay(cards, TableFor(gs, playerId), gs.laiziRank)
       THEN NoChange
     ELSE IF playerIdx = -1 THEN NoChange
     ELSE applyPlay(gs, playerId, cards)

\* handleData as the closure (isHostC, gs) it was created in runs it.
\* data = [type, amount, cards, state]; rnd = [shuffle, turn, draw].
handleData(isHostC, gs, data, fromPeerId, rnd) ==
  IF isHostC
    THEN IF data.type = "JOIN_REQUEST" THEN JoinRequest(gs, fromPeerId)
         ELSE IF data.type = "ACTION_BID"
           THEN processBid(gs, fromPeerId, data.amount, rnd.draw)
         ELSE IF data.type = "ACTION_PLAY"
           THEN processPlay(gs, fromPeerId, data.cards)
         ELSE IF data.type = "ACTION_RESTART"
           THEN startNewGame(gs, gs.players, rnd.shuffle, rnd.turn)
         ELSE NoChange
    ELSE IF data.type = "GAME_STATE_UPDATE" /\ data.state # <<>>
           THEN SetOnly(data.state[1])
         ELSE NoChange

\* ------------------------------------------------------------------ state
VARIABLES
  view,           \* useState view: "HOME", "LOBBY" or "GAME"
  inputRoomCode,  \* useState inputRoomCode: the text of the room code field
  isHost,         \* useState isHost
  peerId,         \* useState peerId ("" until a peer opens)
  gameState,      \* the host's useState gameState (latest value set)
  connClosure,    \* the peers made by initHost, in the order of the clicks:
                  \* what the connection callbacks of each close over,
                  \* whether it was destroyed, and the guests connected to it
  opening,        \* the 'open' events not yet fired of the peers of initHost,
                  \* each with what its callback closes over
  joinPeers,      \* the peers made by initGuestAndJoin: the closure of the
                  \* click, whether 'open' has fired, and the state of the
                  \* connection to the room joined
  peerRef,        \* peerRef.current: <<>>, <<"host", k>> or <<"join", j>>
  connections,    \* connectionsRef.current: the fan-out list
  status,         \* per guest: "idle", "open" or "closed"
  net,            \* per guest: GAME_STATE_UPDATEs in flight host -> guest
  guestState,     \* per guest: its local gameState
  dealTimers,     \* pending startNewGame setTimeout callbacks in the
                  \* order they were set (the state each will broadcast)
  botTimer,       \* <<>> or <<gs>>: the pending bot setTimeout and the
                  \* gameState of the render that scheduled it
  effectPending,  \* gameState was set and the bot useEffect has not re-run
  botCount,       \* bots created so far (stands for Date.now() in the id)
  inputs,         \* inputs that changed gameState so far (bounded by
                  \* the bound of the specification)
  botSteps,       \* bot timer callbacks run so far (bounded by MaxBotSteps)
  discarded,      \* history: cards removed from hands since the last deal
  last,           \* history: the last handler on the host that set gameState
                  \* or handled a join request, a bid or a play, the cards
                  \* submitted, whether it set gameState and whether it
                  \* went through broadcastState
  call            \* one call of isValidPlay or getBotMove on its own: the
                  \* arguments, and the value returned once it has run

vars == <<view, inputRoomCode, isHost, peerId, gameState, connClosure,
          opening, joinPeers, peerRef, connections, status, net, guestState,
          dealTimers, botTimer, effectPending, botCount, inputs, botSteps,
          discarded, last, call>>

Event(op, from, cards, out) ==
  [op |-> op, from |-> from, cards |-> cards,
   applied |-> out.set # <<>>, sent |-> out.send]

Msg(type, amount, cards, state) ==
  [type |-> type, amount |-> amount, cards |-> cards, state |-> state]

\* No call of the pure functions outside the game.
NoCall ==
  [fn |-> "none", cards |-> <<>>, lastCards |-> <<>>, laiziRank |-> NoRank,
   done |-> FALSE, verdict |-> FALSE, move |-> <<>>, bid |-> 0]

InitGame ==
  /\ view = "HOME"
  /\ inputRoomCode = ""
  /\ opening = {}
  /\ joinPeers = <<>>
  /\ peerRef = <<>>
  /\ isHost = FALSE
  /\ peerId = ""
  /\ gameState = InitialGameState
  /\ connClosure = <<>>
  /\ connections = <<>>
  /\ status = [g \in Guests |-> "idle"]
  /\ net = [g \in Guests |-> <<>>]
  /\ guestState = [g \in Guests |-> InitialGameState]
  /\ dealTimers = <<>>
  /\ botTimer = <<>>
  /\ effectPending = FALSE
  /\ botCount = 0
  /\ inputs = 0
  /\ botSteps = 0
  /\ discarded = <<>>
  /\ last = Event("init", NULL, <<>>, NoChange)

Init == InitGame /\ call = NoCall

\* ------------------------------------------------------- shared step parts
\* broadcastState: setGameState(newState), drop closed connections, send the
\* state to each remaining one.  A handler that returns early does neither.
IsOpen(c) ==
  IF c \in Guests THEN status[c] = "open"
  ELSE \E j \in 1..Len(joinPeers) :
         c = JoinConn(j) /\ joinPeers[j].conn = "open"

OpenOnly(conns) == SelectSeq(conns, IsOpen)

ApplyState(out) ==
  /\ gameState' = IF out.set = <<>> THEN gameState ELSE out.set[1]
  /\ connections' = IF out.send THEN OpenOnly(connections) ELSE connections
  /\ net' = [g \in Guests |->
               IF out.send /\ g \in Range(OpenOnly(connections))
                 THEN Append(net[g], out.set[1]) ELSE net[g]]
  /\ effectPending' = (effectPending \/ out.set # <<>>)

\* A handler's outcome with the timers it schedules: every call of
\* startNewGame sets a timer of its own, whatever the others hold.
Apply(out) ==
  /\ ApplyState(out)
  /\ dealTimers' = dealTimers \o out.timers

\* Cards that the new state's hands no longer hold, for the discard history.
RECURSIVE HandCards(_)
HandCards(players) ==
  IF Len(players) = 0 THEN <<>>
  ELSE players[1].hand \o HandCards(Tail(players))

Removed(gs, out) ==
  IF out.set = <<>> THEN <<>>
  ELSE SelectSeq(HandCards(gs.players),
                 LAMBDA c : c \notin Range(HandCards(out.set[1].players)))

Room == \A g \in Guests : Len(net[g]) < MaxQueue

LaiziDraws == 0..MaxLaiziDraw
Turns == 0..(Seats - 1)
BidAmounts == 0..3

\* The ids an App can have: that of a peer of initHost or of
\* initGuestAndJoin.
AppIds ==
  {PeerIdOf(k) : k \in 1..MaxPeers} \cup {JoinId(j) : j \in 1..MaxJoins}

\* ------------------------------------------------------------ host set-up
\* The screens of the render (lines 628, 673, 699, 755).
HomeScreen == view = "HOME"
SetupScreen == view = "LOBBY" /\ peerId = "" /\ inputRoomCode = ""
LobbyScreen == view = "LOBBY" /\ ~SetupScreen
GameScreen == view = "GAME"

\* The create-room button of the home screen (line 647).
GoCreate ==
  /\ HomeScreen
  /\ view' = "LOBBY"
  /\ UNCHANGED <<call, opening, inputRoomCode, joinPeers, peerRef, isHost, peerId,
                 gameState, connClosure, connections, status, net,
                 guestState, dealTimers, botTimer, effectPending, botCount,
                 inputs, botSteps, discarded, last>>

\* The back button of the set-up screen (line 693).
Back ==
  /\ SetupScreen
  /\ view' = "HOME"
  /\ UNCHANGED <<call, opening, inputRoomCode, joinPeers, peerRef, isHost, peerId,
                 gameState, connClosure, connections, status, net,
                 guestState, dealTimers, botTimer, effectPending, botCount,
                 inputs, botSteps, discarded, last>>

\* peer.destroy() of peerRef.current: the connections of that peer close.
\* On a peer of initHost the close callbacks of its open guests run (lines
\* 172-181); on a peer of initGuestAndJoin the connection to the room is
\* closed, whose callback sets the view to HOME (line 240).
DestroyedGuests ==
  IF Len(peerRef) = 2 /\ peerRef[1] = "host"
    THEN {g \in connClosure[peerRef[2]].conns : status[g] = "open"}
    ELSE {}

DestroyedJoinOpen ==
  /\ Len(peerRef) = 2 /\ peerRef[1] = "join"
  /\ joinPeers[peerRef[2]].conn = "open"

JoinPeersAfterDestroy ==
  [j \in 1..Len(joinPeers) |->
     IF peerRef = <<"join", j>>
       THEN [joinPeers[j] EXCEPT
               !.destroyed = TRUE,
               !.conn = IF @ = "open" THEN "closed" ELSE @]
       ELSE joinPeers[j]]

ConnClosureAfterDestroy ==
  [k \in 1..Len(connClosure) |->
     IF peerRef = <<"host", k>>
       THEN [connClosure[k] EXCEPT !.destroyed = TRUE]
       ELSE connClosure[k]]

DestroyPeerRef ==
  /\ status' = [g \in Guests |->
       IF g \in DestroyedGuests THEN "closed" ELSE status[g]]
  /\ connections' = SelectSeq(connections,
                              LAMBDA c : c \notin DestroyedGuests)
  /\ net' = [g \in Guests |->
       IF g \in DestroyedGuests THEN <<>> ELSE net[g]]
  /\ gameState' = [gameState EXCEPT
       !.players = SelectSeq(gameState.players,
                             LAMBDA p : p.id \notin DestroyedGuests)]
  /\ effectPending' = (effectPending \/ DestroyedGuests # {})
  /\ view' = IF DestroyedJoinOpen THEN "HOME" ELSE view

\* initHost (lines 110-198) called in the render closure c with the check
\* boxes' values of that render: peerRef.current is destroyed, and a peer is
\* made whose callbacks close over c's isHost and gameState.
initHost(c, dedicated, laizi) ==
  /\ Len(connClosure) < MaxPeers
  /\ joinPeers' = JoinPeersAfterDestroy
  /\ connClosure' = Append(ConnClosureAfterDestroy,
       [isHost |-> c.isHost, gameState |-> c.gameState,
        destroyed |-> FALSE, conns |-> {}])
  /\ DestroyPeerRef
  /\ opening' = opening \cup {[peer |-> Len(connClosure) + 1,
                                enableLaizi |-> laizi,
                                dedicated |-> dedicated]}
  /\ last' = Event("initHost", NULL, <<>>, NoChange)
  /\ UNCHANGED <<call, inputRoomCode, peerRef, isHost, peerId, guestState,
                 dealTimers, botTimer, botCount, inputs, botSteps,
                 discarded>>

\* The click on the create button (line 694) calls initHost in the current
\* render.  The button is rendered while peerId is empty, that is before any
\* peer has opened, and a second click makes a second peer.
InitHost(dedicated, laizi) ==
  /\ SetupScreen
  /\ initHost([isHost |-> isHost, gameState |-> gameState], dedicated, laizi)

\* peer.on('error') of a peer of initHost with the type 'unavailable-id'
\* (lines 184-187): initHost is called again in the closure of the peer that
\* failed, on whatever screen the App shows by then.
PeerUnavailable(o) ==
  /\ o \in opening
  /\ initHost(connClosure[o.peer], o.dedicated, o.enableLaizi)

\* peer.on('open') of a peer of initHost (lines 122-150).
PeerOpen(o) ==
  /\ o \in opening
  /\ opening' = opening \ {o}
  /\ peerId' = PeerIdOf(o.peer)
  /\ isHost' = TRUE
  /\ peerRef' = <<"host", o.peer>>
  /\ connections' = <<>>
  /\ gameState' = [gameState EXCEPT
       !.players = IF o.dedicated THEN <<>>
                   ELSE <<NewPlayer(PeerIdOf(o.peer), FALSE)>>,
       !.config = [enableLaizi |-> o.enableLaizi,
                   isDedicated |-> o.dedicated]]
  /\ view' = "LOBBY"
  /\ effectPending' = TRUE
  /\ last' = Event("peerOpen", NULL, <<>>, SetOnly(gameState'))
  /\ UNCHANGED <<call, inputRoomCode, connClosure, joinPeers, status, net,
                 guestState, dealTimers, botTimer, botCount, inputs,
                 botSteps, discarded>>

\* The peers of initHost whose 'open' has fired.
Opened(k) == k \in 1..Len(connClosure) /\ \A o \in opening : o.peer # k

\* ------------------------------------------------------ host's own actions
AddBot ==
  /\ isHost /\ Room /\ botCount < MaxBots
  /\ LET out == addBot(gameState, BotId(botCount + 1))
     IN /\ Apply(out)
        /\ botCount' = IF out.set = <<>> THEN botCount ELSE botCount + 1
        /\ last' = IF out.set = <<>> THEN last
                   ELSE Event("addBot", BotId(botCount + 1), <<>>, out)
  /\ UNCHANGED <<call, view, inputRoomCode, opening, joinPeers, peerRef, isHost, peerId, connClosure, status, guestState, botTimer,
                 inputs, botSteps, discarded>>

\* sendAction on the host: the handlers run in the current render's closure
\* with the host's own peerId as the player.
HostBid(amount, draw) ==
  /\ isHost /\ Room
  /\ LET out == processBid(gameState, peerId, amount, draw)
     IN /\ Apply(out)
        /\ inputs' = IF out.set = <<>> THEN inputs ELSE inputs + 1
        /\ last' = Event("ACTION_BID", peerId, <<>>, out)
  /\ UNCHANGED <<call, view, inputRoomCode, opening, joinPeers, peerRef, isHost, peerId, connClosure, status, guestState, botTimer,
                 botCount, botSteps, discarded>>

HostPlay(cards) ==
  /\ isHost /\ Room
  /\ LET out == processPlay(gameState, peerId, cards)
     IN /\ Apply(out)
        /\ discarded' = discarded \o Removed(gameState, out)
        /\ inputs' = IF out.set = <<>> THEN inputs ELSE inputs + 1
        /\ last' = Event("ACTION_PLAY", peerId, cards, out)
  /\ UNCHANGED <<call, view, inputRoomCode, opening, joinPeers, peerRef, isHost, peerId, connClosure, status, guestState, botTimer,
                 botCount, botSteps>>

HostRestart(n, turn) ==
  /\ isHost /\ Room
  /\ Len(dealTimers) < MaxDealTimers
  /\ LET out == startNewGame(gameState, gameState.players, n, turn)
     IN /\ Apply(out)
        /\ last' = Event("ACTION_RESTART", peerId, <<>>, out)
  /\ discarded' = <<>>
  /\ inputs' = inputs + 1
  /\ UNCHANGED <<call, view, inputRoomCode, opening, joinPeers, peerRef, isHost, peerId, connClosure, status, guestState, botTimer,
                 botCount, botSteps>>

\* The card selections the host's player submits: a pass, the first or last
\* k cards of the hand (the hand is sorted by value, so these are singles,
\* pairs and mixed sets), and the highest card together with the lowest.
MaxPlayLen == 2

PlayInputs(gs, playerId) ==
  LET idx == FindIndex(gs.players, playerId)
      hand == IF idx = -1 THEN <<>> ELSE gs.players[idx + 1].hand
      n == Len(hand)
      ks == {k \in 1..MaxPlayLen : k <= n}
  IN {<<>>} \cup {SubSeq(hand, 1, k) : k \in ks}
            \cup {SubSeq(hand, n - k + 1, n) : k \in ks}
            \cup (IF n >= 2 THEN {<<hand[1], hand[n]>>} ELSE {})

\* --------------------------------------------------------------- guests
\* conn.on('open') on the host, for a guest that connects to the k-th peer.
GuestConnect(g, k) ==
  /\ Opened(k) /\ ~connClosure[k].destroyed
  /\ status[g] = "idle"
  /\ status' = [status EXCEPT ![g] = "open"]
  /\ connClosure' = [connClosure EXCEPT ![k].conns = @ \cup {g}]
  /\ connections' = IF g \in Range(connections) THEN connections
                    ELSE Append(connections, g)
  /\ UNCHANGED <<call, view, inputRoomCode, opening, joinPeers, peerRef, isHost,
                 peerId, gameState, net, guestState, dealTimers, botTimer,
                 effectPending, botCount, inputs, botSteps, discarded, last>>

\* The state a peer that wants a seat can put into a GAME_STATE_UPDATE: its
\* own local state with itself appended to players.
WithSeat(gs, id) ==
  IF FindIndex(gs.players, id) # -1 \/ Len(gs.players) >= 3 THEN gs
  ELSE [gs EXCEPT !.players = Append(@, NewPlayer(id, FALSE))]

\* What a guest's channel may carry to the host: the four messages of a
\* conforming client, a GAME_STATE_UPDATE that echoes the guest's own local
\* state, and one that carries that state with the sender seated.
GuestMessages(g) ==
  {Msg("JOIN_REQUEST", 0, <<>>, <<>>), Msg("ACTION_RESTART", 0, <<>>, <<>>),
   Msg("GAME_STATE_UPDATE", 0, <<>>, <<guestState[g]>>),
   Msg("GAME_STATE_UPDATE", 0, <<>>, <<WithSeat(guestState[g], g)>>)}
  \cup {Msg("ACTION_BID", a, <<>>, <<>>) : a \in {3}}
  \cup {Msg("ACTION_PLAY", 0, c, <<>>) : c \in {<<0>>}}

\* The view after a message was handled: the guest branch of handleData
\* sets it from the phase of the state received (line 318).
ViewAfter(out, data) ==
  IF data.type = "GAME_STATE_UPDATE" /\ out.set # <<>> /\ ~out.send
    THEN (IF out.set[1].phase = Lobby THEN "LOBBY" ELSE "GAME")
    ELSE view

\* A data callback of closure c runs handleData on a message from `from`.
Receive(c, data, from, n, turn, draw) ==
  /\ Room
  /\ LET out == handleData(c.isHost, c.gameState, data, from,
                           [shuffle |-> n, turn |-> turn, draw |-> draw])
     IN /\ Len(dealTimers) + Len(out.timers) <= MaxDealTimers
        /\ Apply(out)
        /\ view' = ViewAfter(out, data)
        /\ discarded' = IF data.type = "ACTION_RESTART" /\ out.set # <<>>
                          THEN <<>>
                        ELSE IF out.set = <<gameState>> THEN discarded
                        ELSE discarded \o Removed(c.gameState, out)
        /\ inputs' = IF out.set = <<>> \/ out.set = <<gameState>>
                       THEN inputs ELSE inputs + 1
        /\ last' = IF \/ (out.set = <<>>
                            /\ data.type \in {"ACTION_RESTART",
                                               "GAME_STATE_UPDATE"})
                        \/ (out.set = <<gameState>>
                            /\ data.type = "GAME_STATE_UPDATE")
                     THEN last
                     ELSE Event(data.type, from, data.cards, out)
  /\ UNCHANGED <<call, opening, inputRoomCode, joinPeers, peerRef, isHost, peerId,
                 connClosure, status, guestState, botTimer, botCount,
                 botSteps>>

\* conn.on('data') on the host: handleData of the closure that the initHost
\* of the guest's peer captured.
HostReceive(g, data, n, turn, draw) ==
  /\ isHost /\ status[g] = "open"
  /\ \E k \in 1..Len(connClosure) :
       /\ g \in connClosure[k].conns
       /\ Receive(connClosure[k], data, g, n, turn, draw)

\* conn.on('close') on the host: the channel leaves the fan-out list and the
\* player with that id is filtered out of players; nothing is sent.
ConnClose(g) ==
  /\ status[g] = "open"
  /\ status' = [status EXCEPT ![g] = "closed"]
  /\ connections' = SelectSeq(connections, LAMBDA c : c # g)
  /\ gameState' = [gameState EXCEPT
       !.players = SelectSeq(gameState.players, LAMBDA p : p.id # g)]
  /\ effectPending' = TRUE
  /\ net' = [net EXCEPT ![g] = <<>>]
  /\ UNCHANGED <<call, view, inputRoomCode, opening, joinPeers, peerRef, isHost, peerId, connClosure, guestState, dealTimers,
                 botTimer, botCount, inputs, botSteps, discarded, last>>

\* conn.on('data') on a guest: handleData's guest branch replaces the local
\* state by the one received.
GuestDeliver(g) ==
  /\ Len(net[g]) > 0
  /\ guestState' = [guestState EXCEPT ![g] = Head(net[g])]
  /\ net' = [net EXCEPT ![g] = Tail(net[g])]
  /\ UNCHANGED <<call, view, inputRoomCode, opening, joinPeers, peerRef, isHost, peerId, gameState, connClosure, connections, status,
                 dealTimers, botTimer, effectPending, botCount, inputs,
                 botSteps, discarded, last>>

\* ------------------------------------------------------- joining a room
\* The room code field of the home screen (line 655): empty, part of a code,
\* a code of four digits.
RoomCodes == {"", "12", "1234"}

TypeCode(code) ==
  /\ HomeScreen /\ code # inputRoomCode
  /\ inputRoomCode' = code
  /\ UNCHANGED <<call, opening, view, joinPeers, peerRef, isHost, peerId, gameState,
                 connClosure, connections, status, net, guestState,
                 dealTimers, botTimer, effectPending, botCount, inputs,
                 botSteps, discarded, last>>

\* The join button of the home screen (line 659): initGuestAndJoin destroys
\* peerRef.current and makes a peer whose callbacks close over this render.
JoinClick ==
  /\ HomeScreen /\ Len(inputRoomCode) = 4 /\ Len(joinPeers) < MaxJoins
  /\ joinPeers' = Append(JoinPeersAfterDestroy,
       [isHost |-> isHost, gameState |-> gameState, opened |-> FALSE,
        destroyed |-> FALSE, conn |-> "none"])
  /\ connClosure' = ConnClosureAfterDestroy
  /\ DestroyPeerRef
  /\ UNCHANGED <<call, opening, inputRoomCode, peerRef, isHost, peerId,
                 guestState, dealTimers, botTimer, botCount, inputs,
                 botSteps, discarded, last>>

\* peer.on('open') of the j-th peer of initGuestAndJoin (lines 215-221).
JoinPeerOpen(j) ==
  /\ j \in 1..Len(joinPeers)
  /\ ~joinPeers[j].opened /\ ~joinPeers[j].destroyed
  /\ joinPeers' = [joinPeers EXCEPT ![j].opened = TRUE]
  /\ peerId' = JoinId(j)
  /\ UNCHANGED <<call, opening, view, inputRoomCode, peerRef, isHost, gameState,
                 connClosure, connections, status, net, guestState,
                 dealTimers, botTimer, effectPending, botCount, inputs,
                 botSteps, discarded, last>>

\* conn.on('open') of its connection to the room (lines 223-231).
JoinConnOpen(j) ==
  /\ j \in 1..Len(joinPeers)
  /\ joinPeers[j].opened /\ ~joinPeers[j].destroyed
  /\ joinPeers[j].conn = "none"
  /\ joinPeers' = [joinPeers EXCEPT ![j].conn = "open"]
  /\ connections' = <<JoinConn(j)>>
  /\ peerRef' = <<"join", j>>
  /\ UNCHANGED <<call, opening, view, inputRoomCode, isHost, peerId, gameState,
                 connClosure, status, net, guestState, dealTimers, botTimer,
                 effectPending, botCount, inputs, botSteps, discarded, last>>

\* What the peer at the id of the room joined sends: the state of its own
\* room, here its lobby with its own player seated and the Dealing state of
\* the round it starts with two bots, and the messages of a client.
RemoteLobby ==
  [InitialGameState EXCEPT !.players = <<NewPlayer(RemoteId, FALSE)>>]

RemoteDealing ==
  LET players == <<NewPlayer(RemoteId, FALSE), NewPlayer(BotId(1), TRUE),
                   NewPlayer(BotId(2), TRUE)>>
  IN startNewGame([InitialGameState EXCEPT !.players = players],
                  players, 0, 1).set[1]

RemoteMessages ==
  {Msg("GAME_STATE_UPDATE", 0, <<>>, <<gs>>) : gs \in {RemoteLobby, RemoteDealing}}
  \cup {Msg("JOIN_REQUEST", 0, <<>>, <<>>), Msg("ACTION_RESTART", 0, <<>>, <<>>),
        Msg("ACTION_BID", 3, <<>>, <<>>), Msg("ACTION_PLAY", 0, <<0>>, <<>>)}

\* conn.on('data') of that connection (lines 233-236): handleData of the
\* closure of the click, with the room's host as the sender.
JoinReceive(j, data, n, turn, draw) ==
  /\ j \in 1..Len(joinPeers) /\ joinPeers[j].conn = "open"
  /\ Receive(joinPeers[j], data, RemoteId, n, turn, draw)

\* conn.on('close') of that connection (lines 238-242).
JoinConnClose(j) ==
  /\ j \in 1..Len(joinPeers) /\ joinPeers[j].conn = "open"
  /\ joinPeers' = [joinPeers EXCEPT ![j].conn = "closed"]
  /\ view' = "HOME"
  /\ UNCHANGED <<call, opening, inputRoomCode, peerRef, isHost, peerId, gameState,
                 connClosure, connections, status, net, guestState,
                 dealTimers, botTimer, effectPending, botCount, inputs,
                 botSteps, discarded, last>>

\* --------------------------------------------------------------- timers
\* The setTimeout callback of startNewGame: broadcasts the Bidding state
\* built from the closure that scheduled it.  All these timers have the
\* delay 2000, so they run in the order they were set.
DealTimerFire(t) ==
  /\ dealTimers # <<>> /\ t = Head(dealTimers) /\ Room
  /\ ApplyState(Broadcast(t))
  /\ dealTimers' = Tail(dealTimers)
  /\ discarded' = <<>>
  /\ last' = Event("dealTimer", NULL, <<>>, Broadcast(t))
  /\ UNCHANGED <<call, view, inputRoomCode, opening, joinPeers, peerRef, isHost, peerId, connClosure, status, guestState, botTimer,
                 botCount, inputs, botSteps>>

\* The bot useEffect (deps [gameState, isHost]): the previous timer is
\* cleared, and a new one is set when the player at turn is a bot.
BotDue(gs) ==
  /\ isHost /\ gs.phase # GameOver
  /\ gs.currentTurnIndex >= 0 /\ gs.currentTurnIndex < Len(gs.players)
  /\ gs.players[gs.currentTurnIndex + 1].isBot

BotEffect ==
  /\ effectPending
  /\ effectPending' = FALSE
  /\ botTimer' = IF BotDue(gameState) THEN <<gameState>> ELSE <<>>
  /\ UNCHANGED <<call, view, inputRoomCode, opening, joinPeers, peerRef, isHost, peerId, gameState, connClosure, connections, status,
                 net, guestState, dealTimers, botCount, inputs, botSteps,
                 discarded, last>>

\* What the timer callback of the bot effect does in its closure gs.  A bot
\* that leads with an empty hand makes getBotMove return [undefined], on
\* which isValidPlay throws: no state change.
BotPlayThrows(gs) ==
  /\ gs.phase = Playing
  /\ Len(gs.players[gs.currentTurnIndex + 1].hand) = 0
  /\ TableFor(gs, gs.players[gs.currentTurnIndex + 1].id) = <<>>

BotAct(gs, draw) ==
  LET currentPlayer == gs.players[gs.currentTurnIndex + 1]
  IN IF gs.phase = Bidding
       THEN processBid(gs, currentPlayer.id, getBotBid(currentPlayer.hand), draw)
     ELSE IF gs.phase = Playing /\ ~BotPlayThrows(gs)
       THEN processPlay(gs, currentPlayer.id,
              getBotMove(currentPlayer.hand,
                         TableFor(gs, currentPlayer.id), gs.laiziRank))
     ELSE NoChange

\* The timer callback runs: everything but the count of the runs.
BotTimerRun(draw) ==
  /\ botTimer # <<>> /\ Room
  /\ LET gs == botTimer[1]
         out == BotAct(gs, draw)
     IN /\ Apply(out)
        /\ discarded' = discarded \o Removed(gs, out)
        /\ last' = Event("botTimer", gs.players[gs.currentTurnIndex + 1].id,
                         <<>>, out)
  /\ botTimer' = <<>>
  /\ UNCHANGED <<call, view, inputRoomCode, opening, joinPeers, peerRef, isHost, peerId, connClosure, status, guestState, botCount,
                 inputs>>

BotTimerFire(draw) ==
  /\ BotTimerRun(draw)
  /\ botSteps' = botSteps + 1

\* ------------------------------------------------------------------- spec
\* The player seated at currentTurnIndex, if any, is id.
AtTurn(gs, id) ==
  /\ gs.currentTurnIndex >= 0 /\ gs.currentTurnIndex < Len(gs.players)
  /\ gs.players[gs.currentTurnIndex + 1].id = id

\* The random draws a message of the given type can consume.
DrawsFor(type, user, draws) == IF type = user THEN draws ELSE {0}

\* The room is created: the screens up to the create button, and the opens
\* of the peers made.
CreateRoom ==
  \/ GoCreate
  \/ Back
  \/ \E d \in BOOLEAN, l \in BOOLEAN : InitHost(d, l)
  \/ \E o \in opening : PeerOpen(o)

\* The App that made a room joins another one.
JoinStep ==
  \/ \E code \in RoomCodes : TypeCode(code)
  \/ JoinClick
  \/ \E j \in 1..MaxJoins : JoinPeerOpen(j)
  \/ \E j \in 1..MaxJoins : JoinConnOpen(j)
  \/ \E j \in 1..MaxJoins : \E data \in RemoteMessages :
       \E n \in Shuffles, t \in Turns, draw \in LaiziDraws :
         JoinReceive(j, data, n, t, draw)
  \/ \E j \in 1..MaxJoins : JoinConnClose(j)

Timers ==
  \/ \E t \in Range(dealTimers) : DealTimerFire(t)
  \/ BotEffect
  \/ \E draw \in LaiziDraws : BotTimerFire(draw)

GuestStep ==
  \/ \E g \in Guests, k \in 1..MaxPeers : GuestConnect(g, k)
  \/ \E g \in Guests : \E data \in GuestMessages(g) :
       \E n \in DrawsFor(data.type, "ACTION_RESTART", Shuffles),
          t \in DrawsFor(data.type, "ACTION_RESTART", Turns),
          draw \in DrawsFor(data.type, "ACTION_BID", LaiziDraws) :
         HostReceive(g, data, n, t, draw)
  \/ \E g \in Guests : ConnClose(g)
  \/ \E g \in Guests : GuestDeliver(g)

\* The host's inputs as the screens offer them.  The lobby screen of a host
\* has the add-bot button, enabled while fewer than 3 players are seated,
\* and the start button, enabled while 3 are (lines 740-745): neither looks
\* at the phase, and a host stays on this screen while its game runs,
\* because broadcastState does not set the view.
ClickAddBot ==
  /\ LobbyScreen /\ isHost /\ Len(gameState.players) < 3
  /\ AddBot

ClickStart(n, turn) ==
  /\ LobbyScreen /\ isHost /\ Len(gameState.players) >= 3
  /\ HostRestart(n, turn)

\* The game screen, which an App is on after a GAME_STATE_UPDATE it received
\* (line 318): the restart button of the GameOver panel (lines 945-949) and,
\* unless the room is dedicated, the bid buttons in Bidding and the pass and
\* play buttons in Playing while the player at turn has the App's peerId
\* (lines 966-990).
ClickAgain(n, turn) ==
  /\ GameScreen /\ isHost /\ gameState.phase = GameOver
  /\ HostRestart(n, turn)

ClickBid(amount, draw) ==
  /\ GameScreen /\ ~gameState.config.isDedicated
  /\ AtTurn(gameState, peerId) /\ gameState.phase = Bidding
  /\ HostBid(amount, draw)

ClickPlay(cards) ==
  /\ GameScreen /\ ~gameState.config.isDedicated
  /\ AtTurn(gameState, peerId) /\ gameState.phase = Playing
  /\ HostPlay(cards)

TableSetup ==
  \/ CreateRoom
  \/ ClickAddBot

\* The buttons that start a round, and those of the player at turn.
TableStart ==
  \/ \E n \in TableShuffles, t \in Turns : ClickStart(n, t)
  \/ \E n \in TableShuffles, t \in Turns : ClickAgain(n, t)

TableTurn ==
  \/ \E a \in BidAmounts :
       \E draw \in DrawsFor(a, 3, LaiziDraws) : ClickBid(a, draw)
  \/ \E c \in PlayInputs(gameState, peerId) : ClickPlay(c)

\* A connected peer that sends the host a GAME_STATE_UPDATE with the state
\* the host is in: the connection's callback adopts it and sets the view from
\* its phase, which is how the host comes to its game screen.
EchoState(g) ==
  HostReceive(g, Msg("GAME_STATE_UPDATE", 0, <<>>, <<gameState>>), 0, 0, 0)

TableEcho ==
  \/ \E g \in Guests, k \in 1..MaxPeers : GuestConnect(g, k)
  \/ \E g \in Guests : GuestDeliver(g)
  \/ \E g \in Guests : EchoState(g)

\* The timers of a table whose rounds are played to their end: the runs of
\* the bot timer are not counted.
DealTimerDue == \E t \in Range(dealTimers) : DealTimerFire(t)

BotTimerDue ==
  \E draw \in LaiziDraws : BotTimerRun(draw) /\ UNCHANGED botSteps

TableTimers ==
  \/ DealTimerDue
  \/ BotEffect
  \/ BotTimerDue

\* Games played at the table from the deal to GameOver.
NextTable ==
  \/ (TableSetup /\ Len(connClosure') <= MaxRooms)
  \/ (TableStart /\ inputs' <= MaxRounds)
  \/ (TableTurn /\ inputs' <= MaxTableInputs)
  \/ TableTimers
  \/ (TableEcho /\ inputs' <= MaxTableInputs)

SpecTable == Init /\ [][NextTable]_vars

\* A table left to its bots: the host only seats them and starts the rounds,
\* with at most MaxBotsDeals deals pending at a time, and every timer that
\* stays due fires (the 2 s timer of startNewGame, the re-run of the bot
\* effect after a render, the 1.5 s timer of the bot at turn).
BotsStart == \E n \in TableShuffles, t \in Turns : ClickStart(n, t)

NextBots ==
  \/ (TableSetup /\ Len(connClosure') <= MaxRooms)
  \/ (BotsStart /\ inputs' <= MaxRounds /\ Len(dealTimers') <= MaxBotsDeals)
  \/ DealTimerDue
  \/ BotEffect
  \/ BotTimerDue

SpecBots ==
  /\ Init /\ [][NextBots]_vars
  /\ WF_vars(DealTimerDue) /\ WF_vars(BotEffect) /\ WF_vars(BotTimerDue)

\* The table with a connected peer that sends plays of cards it does not
\* hold, one card and the same card twice, while the rounds are played.
UnheldPlays == {<<0>>, <<0, 0>>}

TableGuest ==
  \/ TableEcho
  \/ /\ gameState.phase = Playing
     /\ \E g \in Guests : \E c \in UnheldPlays :
          HostReceive(g, Msg("ACTION_PLAY", 0, c, <<>>), 0, 0, 0)

NextTableNet ==
  \/ (TableSetup /\ Len(connClosure') <= MaxRooms)
  \/ (BotsStart /\ inputs' <= MaxTableRounds)
  \/ (TableTurn /\ inputs' <= MaxTableInputs)
  \/ TableTimers
  \/ (TableGuest /\ inputs' <= MaxTableInputs)

SpecTableNet == Init /\ [][NextTableNet]_vars

\* A table of bots with a connected peer during Bidding.  The peer sends bids
\* with amounts that no button offers, and a GAME_STATE_UPDATE that carries
\* the state it last received with such an amount as baseBid.
WideBids == {-1, 4}

WithBid(gs, amount) == [gs EXCEPT !.baseBid = amount]

BidGuest ==
  \/ \E g \in Guests, k \in 1..MaxPeers : GuestConnect(g, k)
  \/ \E g \in Guests : GuestDeliver(g)
  \/ /\ gameState.phase = Bidding
     /\ \E g \in Guests : \E a \in WideBids :
          HostReceive(g, Msg("ACTION_BID", a, <<>>, <<>>), 0, 0, 0)
  \/ /\ gameState.phase = Bidding
     /\ \E g \in Guests : \E a \in WideBids :
          /\ guestState[g] = gameState
          /\ HostReceive(g, Msg("GAME_STATE_UPDATE", 0, <<>>,
                                <<WithBid(guestState[g], a)>>), 0, 0, 0)

\* The rooms of an App: the create button pressed more than once before a
\* peer has opened, another room joined from the App that made one, guests
\* that connect to either peer, and the lobby buttons.
RoomGuest ==
  \/ \E g \in Guests, k \in 1..MaxPeers : GuestConnect(g, k)
  \/ \E g \in Guests : GuestDeliver(g)
  \/ \E g \in Guests : ConnClose(g)

RoomStart == \E n \in Shuffles, t \in Turns : ClickStart(n, t)

\* The host with its guests: the buttons of the screens, the timers, and
\* whatever a connected peer sends.  An input that changes gameState counts
\* against the budget; one the host rejects is free.
Next ==
  \/ (TableSetup /\ Len(connClosure') <= MaxRooms)
  \/ (RoomStart /\ inputs' <= MaxNetInputs)
  \/ (TableTurn /\ inputs' <= MaxNetInputs)
  \/ (Timers /\ botSteps' <= MaxBotSteps)
  \/ (GuestStep /\ inputs' <= MaxNetInputs)

Spec == Init /\ [][Next]_vars

\* The id drawn for a room is taken: initHost runs again.
RoomRetry == \E o \in opening : PeerUnavailable(o)

NextRoom ==
  \/ (CreateRoom /\ Len(connClosure') <= MaxRoomPeers)
  \/ (RoomRetry /\ Len(connClosure') <= MaxRoomPeers)
  \/ ClickAddBot
  \/ (RoomStart /\ inputs' <= MaxRoomInputs)
  \/ (Timers /\ botSteps' <= MaxBotSteps)
  \/ RoomGuest

SpecRoom == Init /\ [][NextRoom]_vars

\* The App that made a room joins another one, once and again after the
\* connection to it has closed.  The create button is pressed once; when the
\* id of the room is taken and initHost runs again, the screens go on and
\* the peers made stay unopened.  The timers that the messages of the room
\* joined set on this App fire as in any room.
NextJoin ==
  \/ (CreateRoom /\ (opening' = opening \/ Len(connClosure') <= MaxRooms))
  \/ RoomRetry
  \/ (JoinStep /\ inputs' <= MaxJoinInputs)
  \/ (Timers /\ botSteps' <= MaxJoinBotSteps)
  \/ RoomGuest

SpecJoin == Init /\ [][NextJoin]_vars

\* A room whose second peer opens while a round is played: the create button
\* pressed twice, the lobby buttons, the buttons of the player at turn, the
\* timers, and a connected peer that echoes the state it received.
NextReopen ==
  \/ (CreateRoom /\ Len(connClosure') <= MaxRoomPeers)
  \/ ClickAddBot
  \/ (RoomStart /\ inputs' <= MaxRoomInputs)
  \/ (TableTurn /\ inputs' <= MaxReopenInputs)
  \/ (Timers /\ botSteps' <= MaxBotSteps)
  \/ TableEcho

SpecReopen == Init /\ [][NextReopen]_vars

NextBidNet ==
  \/ (TableSetup /\ Len(connClosure') <= MaxRooms)
  \/ (BotsStart /\ inputs' <= MaxRounds)
  \/ DealTimerDue
  \/ BotEffect
  \/ BotTimerDue
  \/ (BidGuest /\ inputs' <= MaxRounds)

SpecBidNet == Init /\ [][NextBidNet]_vars

\* ----------------------------------------------------------------- claims
Seated(gs, id) == FindIndex(gs.players, id) # -1

\* The steps in which the host handles a bid or a play: its own player's
\* (sendAction) and one received from guest g.
HostBidStep == \E a \in BidAmounts, draw \in LaiziDraws : HostBid(a, draw)

HostPlayStep == \E c \in PlayInputs(gameState, peerId) : HostPlay(c)

GuestStepOf(g, types) ==
  \E data \in GuestMessages(g) :
    /\ data.type \in types
    /\ \E n \in Shuffles, t \in Turns, draw \in LaiziDraws :
         HostReceive(g, data, n, t, draw)

\* The steps in which the App, being host of its room, handles a message of
\* one of the types that arrives on the connection to the room it joined.
RemoteStepOf(types) ==
  /\ isHost
  /\ \E j \in 1..MaxJoins : \E data \in RemoteMessages :
       /\ data.type \in types
       /\ \E n \in Shuffles, t \in Turns, draw \in LaiziDraws :
            JoinReceive(j, data, n, t, draw)

\* The steps in which the callback of the bot timer runs.
BotTimerStep == \E draw \in LaiziDraws : BotTimerRun(draw)

\* The game state the handler of this step was called on: the state of the
\* render that set the timer for the callback of the bot timer, the state of
\* the render in which the join was made for a play that arrives from the
\* room joined, and the current state for the host's own buttons.
ActedOn ==
  IF BotTimerStep THEN botTimer[1]
  ELSE IF RemoteStepOf({"ACTION_PLAY"})
    THEN joinPeers[CHOOSE j \in 1..Len(joinPeers) :
                     joinPeers[j].conn = "open"].gameState
  ELSE gameState

\* C1: a bid or a play handled by the host whose sender is not the player at
\* currentTurnIndex leaves the host's game state as it was and puts no
\* message on any guest channel.
C1_WrongTurnIgnored ==
  [][ ( \/ (~AtTurn(gameState, peerId) /\ (HostBidStep \/ HostPlayStep))
        \/ \E g \in Guests :
             /\ ~AtTurn(gameState, g)
             /\ GuestStepOf(g, {"ACTION_BID", "ACTION_PLAY"})
        \/ /\ ~AtTurn(gameState, RemoteId)
           /\ RemoteStepOf({"ACTION_BID", "ACTION_PLAY"}) )
      => (UNCHANGED <<gameState, net>> /\ ~last'.sent) ]_vars

\* C2: a non-empty play by the player at turn that isValidPlay rejects
\* against the table leaves the host's game state as it was (turn, hands and
\* table included) and puts no message on any guest channel.
C2_InvalidPlayRejected ==
  [][ \A c \in PlayInputs(gameState, peerId) :
        ( /\ HostPlay(c)
          /\ AtTurn(gameState, peerId)
          /\ Len(c) > 0
          /\ ~isValidPlay(c, TableFor(gameState, peerId), gameState.laiziRank) )
        => (UNCHANGED <<gameState, net>> /\ ~last'.sent) ]_vars

\* C2 happens: in Playing, the host's player is at turn facing another
\* player's cards and has just submitted cards that isValidPlay rejects.
C2_Witness ==
  /\ last.op = "ACTION_PLAY" /\ ~last.applied /\ Len(last.cards) > 0
  /\ last.from = peerId /\ AtTurn(gameState, peerId)
  /\ gameState.phase = Playing
  /\ TableFor(gameState, peerId) # <<>>
  /\ ~isValidPlay(last.cards, TableFor(gameState, peerId), gameState.laiziRank)

\* C3: every step that changes the host's game state sends that new state
\* as a GAME_STATE_UPDATE on every guest channel that is open.
C3_EveryChangeBroadcast ==
  [][ gameState' # gameState
      => \A g \in Guests :
           (status'[g] = "open" /\ g \in Range(connections'))
           => (Len(net'[g]) > 0 /\ net'[g][Len(net'[g])] = gameState') ]_vars

\* C4: a GAME_STATE_UPDATE that arrives at the host from a guest never
\* changes the host's game state.
C4_GuestUpdateIgnored ==
  [][ (\E g \in Guests : GuestStepOf(g, {"GAME_STATE_UPDATE"}))
      => gameState' = gameState ]_vars

\* C5: the host applies each JOIN_REQUEST, bid or play it receives to the
\* game state as it is when the message is handled, so that the new state is
\* the host transition's result on the current state.
C5_AppliedToCurrentState ==
  [][ \A g \in Guests : \A data \in GuestMessages(g) :
        ( /\ data.type \in {"JOIN_REQUEST", "ACTION_BID", "ACTION_PLAY"}
          /\ HostReceive(g, data, 0, 0, 0) )
        => LET out == handleData(TRUE, gameState, data, g,
                                 [shuffle |-> 0, turn |-> 0, draw |-> 0])
           IN gameState' = IF out.set = <<>> THEN gameState ELSE out.set[1]
    ]_vars

\* C6: a bid changes the game state only in Bidding, and a play changes it
\* only in Playing.
C6_ActionsOnlyInTheirPhase ==
  [][ /\ ( ( /\ gameState.phase # Bidding
             /\ \/ HostBidStep
                \/ \E g \in Guests : GuestStepOf(g, {"ACTION_BID"})
                \/ RemoteStepOf({"ACTION_BID"}) )
           => gameState' = gameState )
      /\ ( ( /\ gameState.phase # Playing
             /\ \/ HostPlayStep
                \/ \E g \in Guests : GuestStepOf(g, {"ACTION_PLAY"})
                \/ RemoteStepOf({"ACTION_PLAY"}) )
           => gameState' = gameState ) ]_vars

\* C7: the phase changes only along Lobby -> Dealing -> Bidding -> Playing
\* -> GameOver -> Dealing, and a step that deals (sets a state in Dealing)
\* is taken only with exactly three players seated.
PhaseEdges ==
  {<<Lobby, Dealing>>, <<Dealing, Bidding>>, <<Bidding, Playing>>,
   <<Playing, GameOver>>, <<GameOver, Dealing>>}

C7_PhaseEdges ==
  [][ /\ (gameState'.phase # gameState.phase
          => <<gameState.phase, gameState'.phase>> \in PhaseEdges)
      /\ ((gameState'.phase = Dealing /\ gameState' # gameState)
          => Len(gameState.players) = 3) ]_vars

\* C8: from Dealing onward (the kitty has been dealt), with three players
\* seated who all hold cards, each of the 54 cards is in exactly one place
\* among the three hands, the kitty and the cards played so far.
Count(s, c) == Cardinality({i \in DOMAIN s : s[i] = c})

C8_CardConservation ==
  ( /\ gameState.phase # Lobby
    /\ gameState.kittyCards # <<>>
    /\ Len(gameState.players) = 3
    /\ \A i \in 1..3 : gameState.players[i].hand # <<>> )
  => \A c \in 0..(DeckSize - 1) :
       Count(HandCards(gameState.players) \o gameState.kittyCards
             \o discarded, c) = 1

\* C9: at most three players are seated in Lobby and exactly three in every
\* other phase.
C9_SeatCount ==
  /\ gameState.phase = Lobby => Len(gameState.players) <= 3
  /\ gameState.phase # Lobby => Len(gameState.players) = 3

\* C10: whenever a player is seated, currentTurnIndex is the index of a
\* seated player.
C10_TurnInRange ==
  Len(gameState.players) > 0
  => (gameState.currentTurnIndex >= 0
      /\ gameState.currentTurnIndex < Len(gameState.players))

\* C11: in Playing and in GameOver three players are seated, exactly one of
\* them has role Landlord, the other two have role Peasant, and the
\* Landlord's id is landlordId.
Landlords(gs) == {i \in 1..Len(gs.players) : gs.players[i].role = Landlord}

C11_OneLandlord ==
  gameState.phase \in {Playing, GameOver}
  => /\ Len(gameState.players) = 3
     /\ Cardinality(Landlords(gameState)) = 1
     /\ \A i \in Landlords(gameState) :
          gameState.players[i].id = gameState.landlordId
     /\ \A i \in 1..Len(gameState.players) :
          i \notin Landlords(gameState) => gameState.players[i].role = Peasant

\* C12: a JOIN_REQUEST that the host receives while phase is not Lobby leaves
\* the host's game state as it was; in particular it seats no player.
C12_JoinOnlyInLobby ==
  [][ ( /\ gameState.phase # Lobby
        /\ \/ \E g \in Guests : GuestStepOf(g, {"JOIN_REQUEST"})
           \/ RemoteStepOf({"JOIN_REQUEST"}) )
      => gameState' = gameState ]_vars

\* C13: in Lobby, a JOIN_REQUEST from a peer that is already seated, or one
\* received when 3 players are seated, leaves the game state as it was and
\* sends nothing; any other JOIN_REQUEST appends exactly one player (the
\* sender's id, empty hand, Peasant, INITIAL_BEANS) after the existing seats
\* and the new state is broadcast.
C13_JoinSeatsOnce ==
  [][ \A g \in Guests :
        (GuestStepOf(g, {"JOIN_REQUEST"}) /\ gameState.phase = Lobby)
        => IF Seated(gameState, g) \/ Len(gameState.players) >= 3
             THEN UNCHANGED <<gameState, net>> /\ ~last'.sent
             ELSE /\ gameState' =
                       [gameState EXCEPT
                          !.players = Append(@, NewPlayer(g, FALSE))]
                  /\ last'.sent ]_vars

\* C14: when a guest's channel closes the host drops it from the fan-out
\* list; the player with that id leaves players only if phase is Lobby, and in
\* every other phase (Bidding and Playing among them) players is unchanged.
C14_CloseRemovesOnlyInLobby ==
  [][ \A g \in Guests :
        ConnClose(g)
        => /\ g \notin Range(connections')
           /\ gameState.phase # Lobby
                => gameState'.players = gameState.players ]_vars

\* The steps in which the bot at turn, named id, bids amount from the state
\* the host is in.
BotBidStep(id, amount) ==
  /\ botTimer = <<gameState>> /\ gameState.phase = Bidding
  /\ AtTurn(gameState, id)
  /\ getBotBid(gameState.players[gameState.currentTurnIndex + 1].hand) = amount
  /\ \E draw \in LaiziDraws : BotTimerRun(draw)

\* The steps in which the player at turn, named id, bids amount in Bidding.
TurnBidStep(id, amount) ==
  /\ gameState.phase = Bidding /\ AtTurn(gameState, id)
  /\ \/ id = peerId /\ \E draw \in LaiziDraws : HostBid(amount, draw)
     \/ BotBidStep(id, amount)

SortedByValueDesc(h) ==
  \A k \in 1..(Len(h) - 1) : CardValue(h[k]) >= CardValue(h[k + 1])

\* Three players hold 17 cards each and the kitty holds 3.
DealtForBidding(gs) ==
  /\ Len(gs.players) = 3 /\ Len(gs.kittyCards) = 3
  /\ \A i \in 1..3 : Len(gs.players[i].hand) = 17

\* C15: in Bidding, a bid of 3 by the player at turn moves phase to Playing
\* with baseBid 3 and landlordId the bidder; the bidder has role Landlord
\* and every other player Peasant; the bidder's hand is its old hand plus
\* kittyCards, ordered by value descending, and the other hands are
\* unchanged (20 and 17, 17 cards after a deal of 17, 17, 17 and 3);
\* currentTurnIndex is the bidder's seat.
C15_BidThree ==
  [][ \A id \in AppIds \cup {BotId(n) : n \in 1..MaxBots} :
        TurnBidStep(id, 3)
        => LET seat == FindIndex(gameState.players, id) + 1
               old == gameState.players
               new == gameState'.players
           IN /\ gameState'.phase = Playing
              /\ gameState'.baseBid = 3
              /\ gameState'.landlordId = id
              /\ gameState'.currentTurnIndex = seat - 1
              /\ Len(new) = Len(old)
              /\ \A i \in 1..Len(old) :
                   /\ new[i].id = old[i].id
                   /\ IF i = seat
                        THEN /\ new[i].role = Landlord
                             /\ Len(new[i].hand)
                                  = Len(old[i].hand) + Len(gameState.kittyCards)
                             /\ Range(new[i].hand)
                                  = Range(old[i].hand)
                                    \cup Range(gameState.kittyCards)
                             /\ SortedByValueDesc(new[i].hand)
                        ELSE /\ new[i].role = Peasant
                             /\ new[i].hand = old[i].hand
              /\ DealtForBidding(gameState)
                   => \A i \in 1..3 :
                        Len(new[i].hand) = IF i = seat THEN 20 ELSE 17 ]_vars

\* C15 happens: after a deal the third seat's bot, bidding 3 at its turn, has
\* just become the landlord: it holds 20 cards, is at turn, and the two other
\* seats hold 17 cards as peasants.
C15_Witness ==
  /\ last.op = "botTimer" /\ last.applied
  /\ gameState.phase = Playing /\ gameState.baseBid = 3
  /\ Len(gameState.players) = 3
  /\ last.from = gameState.players[3].id
  /\ gameState.landlordId = gameState.players[3].id
  /\ gameState.currentTurnIndex = 2
  /\ gameState.players[3].role = Landlord
  /\ Len(gameState.players[3].hand) = 20
  /\ \A i \in 1..2 : /\ gameState.players[i].role = Peasant
                      /\ Len(gameState.players[i].hand) = 17

\* C16: in Bidding, a bid other than 3 by the player at turn keeps phase
\* Bidding and moves currentTurnIndex to (currentTurnIndex + 1) mod 3; baseBid
\* and landlordId become the amount and the bidder when the amount is
\* strictly greater than baseBid and are unchanged otherwise, so baseBid does
\* not decrease; players (hands included) and kittyCards are unchanged.
C16_BidBelowThree ==
  [][ \A id \in AppIds \cup {BotId(n) : n \in 1..MaxBots} :
      \A amount \in BidAmounts \ {3} :
        TurnBidStep(id, amount)
        => /\ gameState'.phase = Bidding
           /\ gameState'.currentTurnIndex
                = (gameState.currentTurnIndex + 1) % 3
           /\ IF amount > gameState.baseBid
                THEN /\ gameState'.baseBid = amount
                     /\ gameState'.landlordId = id
                ELSE /\ gameState'.baseBid = gameState.baseBid
                     /\ gameState'.landlordId = gameState.landlordId
           /\ gameState'.baseBid >= gameState.baseBid
           /\ gameState'.players = gameState.players
           /\ gameState'.kittyCards = gameState.kittyCards ]_vars

\* C16 happens: in Bidding after a deal, a bid that does not exceed a
\* positive baseBid has just been accepted: the earlier bidder is still
\* landlordId and the turn has moved on.
C16_Witness ==
  /\ last.op \in {"ACTION_BID", "botTimer"} /\ last.applied
  /\ gameState.phase = Bidding /\ DealtForBidding(gameState)
  /\ gameState.baseBid > 0
  /\ gameState.landlordId # NULL /\ gameState.landlordId # last.from
  /\ Seated(gameState, gameState.landlordId)
  /\ AtTurn(gameState, gameState.players[
        ((FindIndex(gameState.players, last.from) + 1) % 3) + 1].id)

PlayerIds == AppIds \cup {BotId(n) : n \in 1..MaxBots}

\* The hand of the player at turn.
TurnHand(gs) == gs.players[gs.currentTurnIndex + 1].hand

\* The cards the player at turn, named id, can submit in Playing: the host's
\* selections for its own player, the move of getBotMove for a bot.
PlaysOf(id) ==
  IF gameState.phase # Playing \/ ~AtTurn(gameState, id) THEN {}
  ELSE IF id = peerId THEN PlayInputs(gameState, peerId)
  ELSE IF BotPlayThrows(gameState) THEN {}
  ELSE {getBotMove(TurnHand(gameState), TableFor(gameState, id),
                   gameState.laiziRank)}

\* The steps in which the player at turn, named id, submits cards in Playing
\* from the state the host is in, and the handler sets a new state.
TurnPlayStep(id, cards) ==
  /\ gameState.phase = Playing /\ AtTurn(gameState, id)
  /\ \/ id = peerId /\ HostPlay(cards)
     \/ /\ id # peerId /\ botTimer = <<gameState>>
        /\ \E draw \in LaiziDraws : BotTimerRun(draw)
  /\ last'.applied

Without(hand, cards) == SelectSeq(hand, LAMBDA c : c \notin Range(cards))

PassAroundStep(x, id) ==
  /\ Len(gameState.players) = 3
  /\ gameState.lastPlayerId = x /\ gameState.lastPlayedCards # <<>>
  /\ id # x
  /\ gameState.players[((gameState.currentTurnIndex + 1) % 3) + 1].id = x
  /\ TurnPlayStep(id, <<>>)
  /\ \/ id = peerId
     \/ getBotMove(TurnHand(gameState), TableFor(gameState, id),
                   gameState.laiziRank) = <<>>

\* C18: when x has made a non-empty play and the next two players have
\* passed, the state in which the turn is back at x has lastPlayedCards empty
\* and lastPlayerId null.
C18_PassAroundClearsBoth ==
  [][ \A x \in PlayerIds, id \in PlayerIds :
        PassAroundStep(x, id)
        => /\ AtTurn(gameState', x)
           /\ gameState'.lastPlayedCards = <<>>
           /\ gameState'.lastPlayerId = NULL ]_vars

\* In GameOver the winner is seated with an empty hand and every other
\* player holds cards.
WinnerHandEmpty(gs) ==
  /\ Seated(gs, gs.winnerId)
  /\ \A i \in 1..Len(gs.players) :
       (gs.players[i].hand = <<>>) <=> (gs.players[i].id = gs.winnerId)

\* C19: an accepted play that empties the acting player's hand moves phase to
\* GameOver with winnerId that player; and in every reachable state winnerId
\* is non-null only in GameOver, where the winner's hand is empty and the
\* other hands are not.
C19_EmptyHandWins ==
  /\ [][ \A id \in PlayerIds : \A cards \in PlaysOf(id) :
           ( /\ TurnPlayStep(id, cards)
             /\ Len(cards) > 0
             /\ Without(TurnHand(gameState), cards) = <<>> )
           => /\ gameState'.phase = GameOver
              /\ gameState'.winnerId = id ]_vars
  /\ [](gameState.winnerId # NULL
          => /\ gameState.phase = GameOver
             /\ WinnerHandEmpty(gameState))

\* The role of the player named id.
RoleOf(gs, id) == gs.players[FindIndex(gs.players, id) + 1].role

\* C20: on the step into GameOver, with stake = baseBid * multiplier * 100
\* of the state the play was handled on: when the winner is the Landlord, the
\* Landlord's beans grow by 2 * stake and every Peasant's beans shrink by
\* stake; when the winner is a Peasant, the Landlord's beans shrink by
\* 2 * stake and every Peasant's beans grow by stake.
C20_BeansSettled ==
  [][ (gameState.phase # GameOver /\ gameState'.phase = GameOver)
      => LET stake == ActedOn.baseBid * ActedOn.multiplier * 100
             old == ActedOn.players
             new == gameState'.players
             landlordWins == RoleOf(ActedOn, gameState'.winnerId) = Landlord
         IN /\ Len(new) = Len(old)
            /\ \A i \in 1..Len(old) :
                 /\ new[i].id = old[i].id
                 /\ new[i].role = old[i].role
                 /\ new[i].beans - old[i].beans =
                      IF landlordWins
                        THEN (IF old[i].role = Landlord
                                THEN 2 * stake ELSE 0 - stake)
                        ELSE (IF old[i].role = Landlord
                                THEN 0 - 2 * stake ELSE stake) ]_vars

\* C20 happens: a game dealt to three players and bid to 3 has just ended
\* with the landlord's hand empty: from 10000 beans each, the landlord holds
\* 10600 and each peasant 9700.
C20_Witness ==
  /\ gameState.phase = GameOver /\ Len(gameState.players) = 3
  /\ gameState.baseBid = 3 /\ gameState.multiplier = 1
  /\ Seated(gameState, gameState.winnerId)
  /\ RoleOf(gameState, gameState.winnerId) = Landlord
  /\ gameState.winnerId = gameState.landlordId
  /\ \A i \in 1..3 :
       gameState.players[i].beans =
         IF gameState.players[i].id = gameState.winnerId
           THEN INITIAL_BEANS + 600 ELSE INITIAL_BEANS - 300

\* Some player seated before and after the step holds a different number of
\* beans after it.
BeansChange ==
  \E i \in 1..Len(gameState.players), j \in 1..Len(gameState'.players) :
    /\ gameState.players[i].id = gameState'.players[j].id
    /\ gameState.players[i].beans # gameState'.players[j].beans

\* C21: beans change only on a step from Playing to GameOver; in GameOver no
\* bid, play or pass handled by the host changes any player's beans.
C21_ScoredOnce ==
  [][ /\ BeansChange
           => (gameState.phase = Playing /\ gameState'.phase = GameOver)
      /\ ( /\ gameState.phase = GameOver
           /\ \/ HostBidStep \/ HostPlayStep
              \/ \E g \in Guests :
                   GuestStepOf(g, {"ACTION_BID", "ACTION_PLAY"}) )
           => ~BeansChange ]_vars

\* The four card sets of a game state with three players.
DealtSets(gs) ==
  <<Range(gs.players[1].hand), Range(gs.players[2].hand),
    Range(gs.players[3].hand), Range(gs.kittyCards)>>

\* C22: for every shuffle, a start or restart with 3 seated players deals 17
\* cards to each seat in players order (the three consecutive 17-card cuts of
\* the shuffled deck) and the last 3 cards to kittyCards; the four sets are
\* pairwise disjoint and their union is the deck of 54 distinct cards.
C22_DealPartitionsDeck ==
  [][ \A n \in TableShuffles, t \in Turns :
        (HostRestart(n, t) /\ Len(gameState.players) = 3)
        => LET new == gameState'
               deck == shuffleDeck(createDeck, n)
               sets == DealtSets(new)
           IN /\ Cardinality(Range(createDeck)) = DeckSize
              /\ Len(new.players) = 3
              /\ \A i \in 1..3 :
                   /\ new.players[i].id = gameState.players[i].id
                   /\ Len(new.players[i].hand) = 17
                   /\ Range(new.players[i].hand)
                        = {deck[k] : k \in (17 * (i - 1) + 1)..(17 * i)}
              /\ Len(new.kittyCards) = 3
              /\ Range(new.kittyCards) = {deck[k] : k \in 52..54}
              /\ \A a \in 1..4, b \in 1..4 :
                   a # b => sets[a] \cap sets[b] = {}
              /\ Cardinality(sets[1]) = 17 /\ Cardinality(sets[2]) = 17
              /\ Cardinality(sets[3]) = 17 /\ Cardinality(sets[4]) = 3
              /\ UNION {sets[a] : a \in 1..4} = Range(createDeck) ]_vars

\* C22 happens: three players are seated and a start has just dealt: phase
\* is Dealing, every seat holds 17 cards and the kitty 3.
C22_Witness ==
  /\ last.op = "ACTION_RESTART" /\ last.applied
  /\ gameState.phase = Dealing /\ Len(gameState.players) = 3
  /\ \A i \in 1..3 : Len(gameState.players[i].hand) = 17
  /\ Len(gameState.kittyCards) = 3


\* C23: a bot's delayed decision is applied only to the GameState it was
\* scheduled under: every bot-timer step that changes the host's state starts
\* in the very state its timer closed over, in which the bot sits at
\* currentTurnIndex and the phase is not GameOver.
C23_BotDecisionOnScheduledState ==
  [][ (BotTimerStep /\ last'.applied)
        => /\ botTimer = <<gameState>>
           /\ BotDue(gameState)
           /\ AtTurn(gameState, last'.from) ]_vars


\* ------------------------------------------ the pure functions on their own
\* isValidPlay and getBotMove called outside the game: the arguments are
\* drawn in the initial state and one step applies the function.  Both read
\* only value and rank of a card, so the cards come from a part of the deck:
\* two 3s, the four 4s, one 5 and the two jokers, in any order, the cards of
\* one value taken from the lowest id up.
MaxCards == 5

LogicValues == {3, 4, 5, 16, 17}
Copies(v) == IF v = 4 THEN 4 ELSE IF v = 3 THEN 2 ELSE 1
FirstCard(v) == IF v < 16 THEN 4 * (v - 3) ELSE v + 36

CardsOf(vs) ==
  [i \in 1..Len(vs) |->
     FirstCard(vs[i]) + Cardinality({j \in 1..(i - 1) : vs[j] = vs[i]})]

PlaySeqs(n) ==
  {CardsOf(vs) : vs \in {f \in [1..n -> LogicValues] :
     \A v \in LogicValues : Cardinality({i \in 1..n : f[i] = v}) <= Copies(v)}}

Plays == UNION {PlaySeqs(n) : n \in 0..MaxCards}

\* laiziRank: null, or the rank Four as the wildcard.
LogicRanks == {NoRank, 4}

\* lastPlayedCards is empty or a play that isValidPlay accepted, in the order
\* its player selected the cards.
Tables(laiziRank) ==
  {<<>>} \cup {l \in Plays : isValidPlay(l, <<>>, laiziRank)}

\* A bot's hand: up to MaxHand cards out of two 3s, the 4s, the 5s and the
\* jokers, kept in sortHand order.
MaxHand == 5

BotDeck ==
  {c \in Range(createDeck) :
     \/ CardValue(c) = 3 /\ c < 2
     \/ CardValue(c) \in {4, 5, 16, 17}}

Hands ==
  {sortHand(SelectSeq(createDeck, LAMBDA c : c \in S)) :
     S \in {T \in SUBSET BotDeck : Cardinality(T) \in 1..MaxHand}}

InitValidator ==
  /\ InitGame
  /\ \E r \in LogicRanks : \E c \in Plays : \E l \in Tables(r) :
       call = [NoCall EXCEPT !.fn = "isValidPlay", !.cards = c,
                             !.lastCards = l, !.laiziRank = r]

InitBot ==
  /\ InitGame
  /\ \E r \in LogicRanks : \E h \in Hands : \E l \in Tables(r) :
       call = [NoCall EXCEPT !.fn = "getBotMove", !.cards = h,
                             !.lastCards = l, !.laiziRank = r]

Judge ==
  /\ call.fn = "isValidPlay" /\ ~call.done
  /\ call' = [call EXCEPT !.done = TRUE,
                !.verdict = isValidPlay(call.cards, call.lastCards,
                                        call.laiziRank)]
  /\ UNCHANGED <<view, inputRoomCode, opening, joinPeers, peerRef, isHost, peerId,
                 gameState, connClosure, connections, status,
                 net, guestState, dealTimers, botTimer, effectPending,
                 botCount, inputs, botSteps, discarded, last>>

BotMove ==
  /\ call.fn = "getBotMove" /\ ~call.done
  /\ call' = [call EXCEPT !.done = TRUE,
                !.move = getBotMove(call.cards, call.lastCards,
                                    call.laiziRank)]
  /\ UNCHANGED <<view, inputRoomCode, opening, joinPeers, peerRef, isHost, peerId,
                 gameState, connClosure, connections, status,
                 net, guestState, dealTimers, botTimer, effectPending,
                 botCount, inputs, botSteps, discarded, last>>

SpecValidator == InitValidator /\ [][Judge]_vars

SpecBot == InitBot /\ [][BotMove]_vars


\* isValidPlay has returned for the arguments held in call.
Judged == call.fn = "isValidPlay" /\ call.done

HasWildcard(cards, laiziRank) == Len(Laizis(cards, laiziRank)) > 0

\* C24: a rocket (exactly two cards, both of value >= 16) is accepted against
\* every table that is not a rocket, no play at all is accepted when the
\* table is a rocket, and a play that holds a wildcard-rank card is never a
\* rocket.
C24_Rocket ==
  Judged =>
    /\ (IsRocket(call.cards) /\ ~IsRocket(call.lastCards)) => call.verdict
    /\ IsRocket(call.lastCards) => ~call.verdict
    /\ HasWildcard(call.cards, call.laiziRank) => ~IsRocket(call.cards)

\* A play read as the claims read it: its values after wildcard resolution.
UniformResolved(cards, laiziRank) ==
  LET eff == EffectiveValues(cards, laiziRank)
  IN \A i \in 1..Len(eff) : eff[i] = eff[1]

ResolvedValue(cards, laiziRank) == EffectiveValues(cards, laiziRank)[1]

BombResolved(cards, laiziRank) ==
  Len(cards) = 4 /\ UniformResolved(cards, laiziRank)

\* C25: with a bomb being four cards of equal value after wildcard
\* resolution, on the table as in the play: a bomb of value V is accepted on
\* every table that is neither bomb nor rocket and on every bomb of value
\* below V, rejected on a bomb of value above V and on a rocket; a play that
\* is neither bomb nor rocket is rejected on a bomb.
C25_Bomb ==
  Judged =>
    LET r == call.laiziRank
        playBomb == BombResolved(call.cards, r)
        tableBomb == BombResolved(call.lastCards, r)
        tableRocket == IsRocket(call.lastCards)
    IN /\ (playBomb /\ ~tableBomb /\ ~tableRocket) => call.verdict
       /\ (playBomb /\ tableBomb
             /\ ResolvedValue(call.lastCards, r) < ResolvedValue(call.cards, r))
            => call.verdict
       /\ (playBomb /\ tableBomb
             /\ ResolvedValue(call.lastCards, r) > ResolvedValue(call.cards, r))
            => ~call.verdict
       /\ (playBomb /\ tableRocket) => ~call.verdict
       /\ (~playBomb /\ ~IsRocket(call.cards) /\ tableBomb) => ~call.verdict


\* C26: on a non-empty table that is neither bomb nor rocket, a play that is
\* neither bomb nor rocket is accepted if and only if it has as many cards as
\* the table, is uniform in value after wildcard resolution, and its value is
\* strictly greater than the value of the play on the table.
C26_SameKindHigher ==
  (/\ Judged
   /\ Len(call.lastCards) > 0
   /\ ~BombResolved(call.lastCards, call.laiziRank)
   /\ ~IsRocket(call.lastCards)
   /\ ~BombResolved(call.cards, call.laiziRank)
   /\ ~IsRocket(call.cards))
    => (call.verdict <=>
          /\ Len(call.cards) = Len(call.lastCards)
          /\ UniformResolved(call.cards, call.laiziRank)
          /\ ResolvedValue(call.cards, call.laiziRank)
               > ResolvedValue(call.lastCards, call.laiziRank))


\* C27: when leading (lastCards empty) the accepted plays are exactly the
\* rockets and the sets uniform in value after wildcard resolution, that is a
\* single, a pair, a triple or a four-card bomb; the empty play and every
\* other combination are rejected.
C27_Leading ==
  (Judged /\ Len(call.lastCards) = 0)
    => (call.verdict <=>
          /\ Len(call.cards) > 0
          /\ \/ IsRocket(call.cards)
             \/ /\ Len(call.cards) \in 1..4
                /\ UniformResolved(call.cards, call.laiziRank))


\* How n cards that all have the value v, none of them a wildcard and
\* together not a rocket, fare on the table: as that many cards of the deck
\* where the deck has them, by the rules for a uniform play otherwise.
StandIn(n, v) == [i \in 1..n |-> FirstCard(v) + i - 1]

JudgedAs(n, v, lastCards, laiziRank) ==
  IF v < 16 /\ n <= 4 THEN isValidPlay(StandIn(n, v), lastCards, laiziRank)
  ELSE IF Len(lastCards) = 0 THEN TRUE
  ELSE IF IsRocket(lastCards) THEN FALSE
  ELSE IF n = 4
         THEN (~RawBomb(lastCards) \/ v > CardValue(lastCards[1]))
  ELSE IF RawBomb(lastCards) THEN FALSE
  ELSE n = Len(lastCards) /\ v > CardValue(lastCards[1])

\* C28: with a wildcard rank set, k >= 1 non-wildcard cards that share the
\* value v together with m >= 1 wildcard-rank cards get the verdict of k+m
\* cards of value v; when the non-wildcard cards do not share one value, or
\* the play holds only wildcard-rank cards, the verdict is that of the cards
\* at their own values.
C28_WildcardSubstitution ==
  (Judged /\ call.laiziRank # NoRank /\ HasWildcard(call.cards, call.laiziRank))
    => LET normals == Normals(call.cards, call.laiziRank)
           shared == \A i \in 1..Len(normals) :
                       CardValue(normals[i]) = CardValue(normals[1])
       IN IF Len(normals) > 0 /\ shared
            THEN call.verdict = JudgedAs(Len(call.cards), CardValue(normals[1]),
                                         call.lastCards, call.laiziRank)
            ELSE call.verdict = isValidPlay(call.cards, call.lastCards, NoRank)

\* [3, 3, wildcard] with the rank Four as wildcard, led on an empty table, is
\* accepted as a triple of 3s.
C28_Witness ==
  /\ Judged /\ call.laiziRank = 4
  /\ call.cards = <<0, 1, 4>>
  /\ call.lastCards = <<>>
  /\ call.verdict


\* C29: the verdict of isValidPlay is the same for every reordering of cards
\* and for every reordering of lastCards, wildcard-rank cards on the table
\* included.  Every reordering is a chain of exchanges of two positions, and
\* every order of every play and table is among the calls: the verdict must
\* survive each exchange.
C29_OrderIndependent ==
  Judged =>
    /\ \A i, j \in 1..Len(call.cards) :
         isValidPlay(Swap(call.cards, i, j), call.lastCards, call.laiziRank)
           = call.verdict
    /\ \A i, j \in 1..Len(call.lastCards) :
         isValidPlay(call.cards, Swap(call.lastCards, i, j), call.laiziRank)
           = call.verdict


\* getBotMove has returned for the hand (call.cards) and table held in call.
BotMoved == call.fn = "getBotMove" /\ call.done

Held(hand, v) == Cardinality({i \in 1..Len(hand) : CardValue(hand[i]) = v})

\* move is n different cards of the hand, all of value v.
TakesFrom(move, hand, n, v) ==
  /\ Len(move) = n
  /\ Cardinality(Range(move)) = n
  /\ Range(move) \subseteq Range(hand)
  /\ \A i \in 1..n : CardValue(move[i]) = v

\* C30: getBotMove leads the single lowest-value card of the hand.  When it
\* follows: the empty play on a rocket; else, on a uniform non-bomb group, as
\* many cards as the table has from the lowest-value group of the hand that
\* is higher than the table and large enough; failing that a four-of-a-kind
\* of the hand (any on a table that is not a bomb, a higher one on a bomb);
\* failing that both jokers if it holds both; else the empty play.  The bot
\* reads every card, wildcards included, at its own value.
C30_BotMove ==
  BotMoved =>
    LET hand == call.cards
        lastPlayed == call.lastCards
        move == call.move
        lastLen == Len(lastPlayed)
        lastVal == CardValue(lastPlayed[1])
        uniformLast == \A i \in 1..lastLen : CardValue(lastPlayed[i]) = lastVal
        bombLast == lastLen = 4 /\ uniformLast
        beats == IF uniformLast /\ ~bombLast
                   THEN {v \in 3..17 : v > lastVal /\ Held(hand, v) >= lastLen
                                       /\ Held(hand, v) > 0}
                   ELSE {}
        bombs == {v \in 3..17 : Held(hand, v) = 4 /\ (bombLast => v > lastVal)}
    IN IF lastLen = 0
         THEN /\ Len(move) = 1
              /\ move[1] \in Range(hand)
              /\ \A i \in 1..Len(hand) : CardValue(move[1]) <= CardValue(hand[i])
       ELSE IF IsRocket(lastPlayed) THEN move = <<>>
       ELSE IF beats # {}
         THEN \E v \in beats : /\ \A w \in beats : v <= w
                               /\ TakesFrom(move, hand, lastLen, v)
       ELSE IF bombs # {}
         THEN \E v \in bombs : TakesFrom(move, hand, 4, v)
       ELSE IF Held(hand, 16) > 0 /\ Held(hand, 17) > 0
         THEN Len(move) = 2 /\ Range(move) = {52, 53}
       ELSE move = <<>>

\* On a pair of 3s a bot that holds a pair of 4s and a pair of 5s has
\* answered with two 4s.
C30_Witness ==
  /\ BotMoved
  /\ call.lastCards = <<0, 1>>
  /\ Held(call.cards, 4) >= 2 /\ Held(call.cards, 5) >= 2
  /\ TakesFrom(call.move, call.cards, 2, 4)


\* ------------------------------------------------------ getBotBid on its own
\* The hand is drawn in the initial state out of the four 3s, a 4, two Ks,
\* an A, two 2s and the jokers, and one step applies getBotBid.
BidDeck ==
  {c \in Range(createDeck) :
     \/ CardValue(c) \in {3, 16, 17}
     \/ CardValue(c) \in {4, 14} /\ c % 4 = 0
     \/ CardValue(c) \in {13, 15} /\ c % 4 < 2}

HandOf(S) == sortHand(SelectSeq(createDeck, LAMBDA c : c \in S))

InitBid ==
  /\ InitGame
  /\ \E S \in SUBSET BidDeck :
       call = [NoCall EXCEPT !.fn = "getBotBid", !.cards = HandOf(S)]

BotBid ==
  /\ call.fn = "getBotBid" /\ ~call.done
  /\ call' = [call EXCEPT !.done = TRUE, !.bid = getBotBid(call.cards)]
  /\ UNCHANGED <<view, inputRoomCode, opening, joinPeers, peerRef, isHost, peerId,
                 gameState, connClosure, connections, status,
                 net, guestState, dealTimers, botTimer, effectPending,
                 botCount, inputs, botSteps, discarded, last>>

SpecBid == InitBid /\ [][BotBid]_vars

\* getBotBid has returned for the hand held in call.
BidMade == call.fn = "getBotBid" /\ call.done

StrengthOf(hand) ==
  2 * Cardinality({i \in 1..Len(hand) : CardValue(hand[i]) >= 15})
  + Cardinality({i \in 1..Len(hand) : CardValue(hand[i]) \in {13, 14}})
  + 3 * Cardinality({v \in 3..17 : Held(hand, v) = 4})

\* C31: getBotBid is in {0,1,2,3}: 3 for a score above 6, 2 above 4, 1 above
\* 2, else 0, the score being 2 per card of value >= 15, 1 per card of value
\* 13 or 14 and 3 per group of four cards of one value; a hand with one more
\* card of the deck never bids lower.
C31_BotBid ==
  BidMade =>
    LET score == StrengthOf(call.cards)
    IN /\ call.bid \in 0..3
       /\ call.bid = (IF score > 6 THEN 3 ELSE IF score > 4 THEN 2
                      ELSE IF score > 2 THEN 1 ELSE 0)
       /\ \A c \in BidDeck \ Range(call.cards) :
            getBotBid(HandOf(Range(call.cards) \cup {c})) >= call.bid

\* The four 3s with a K: score 3 + 1 = 4, bid 1, where the K alone bids 0.
C31_Witness ==
  /\ BidMade
  /\ Range(call.cards) = {0, 1, 2, 3, 40}
  /\ call.bid = 1


\* The delayed broadcast of startNewGame runs in a Dealing state.
DealTimerStep ==
  /\ last'.op = "dealTimer" /\ dealTimers' # dealTimers
  /\ gameState.phase = Dealing

\* C32: the Bidding state broadcast after the Dealing delay has the hands,
\* the kittyCards and the currentTurnIndex of the Dealing state it follows:
\* the first bidder is the seat drawn at random when dealing.
C32_BiddingKeepsDeal ==
  [][ DealTimerStep
        => /\ gameState'.phase = Bidding
           /\ gameState'.players = gameState.players
           /\ gameState'.kittyCards = gameState.kittyCards
           /\ gameState'.currentTurnIndex = gameState.currentTurnIndex ]_vars


\* Three bots are seated and nobody else.
AllBots ==
  /\ Len(gameState.players) = 3
  /\ \A i \in 1..3 : gameState.players[i].isBot

\* C33: when the player at turn always eventually bids (three bots whose
\* timers fire), every Bidding state is eventually left, whether or not
\* anybody bids 3.
C33_BiddingEnds ==
  (gameState.phase = Bidding /\ AllBots) ~> (gameState.phase # Bidding)


\* A bot is the player at currentTurnIndex in Playing.
BotAtTurn(gs) ==
  /\ gs.phase = Playing
  /\ gs.currentTurnIndex >= 0 /\ gs.currentTurnIndex < Len(gs.players)
  /\ gs.players[gs.currentTurnIndex + 1].isBot

\* The move of the bot at turn is the empty play, or distinct cards of its
\* hand that isValidPlay accepts on the table it is judged against.
BotMoveAccepted(gs) ==
  LET bot == gs.players[gs.currentTurnIndex + 1]
      table == TableFor(gs, bot.id)
  IN /\ ~(Len(bot.hand) = 0 /\ Len(table) = 0)
     /\ LET move == getBotMove(bot.hand, table, gs.laiziRank)
        IN \/ move = <<>>
           \/ /\ Cardinality(Range(move)) = Len(move)
              /\ Range(move) \subseteq Range(bot.hand)
              /\ isValidPlay(move, table, gs.laiziRank)

\* C34: in every reachable Playing state with a bot at turn, getBotMove
\* returns the empty play or distinct cards of the bot's hand that
\* isValidPlay accepts on the table under the current laiziRank, and the
\* bot's timer, when it fires in that state, changes the state.
C34_BotMoveValid ==
  /\ [](BotAtTurn(gameState) => BotMoveAccepted(gameState))
  /\ [][ (BotAtTurn(gameState) /\ botTimer = <<gameState>> /\ BotTimerStep)
           => (last'.applied /\ gameState' # gameState) ]_vars


\* cards are pairwise distinct cards of the hand.
HeldDistinct(cards, hand) ==
  /\ Cardinality(Range(cards)) = Len(cards)
  /\ Range(cards) \subseteq Range(hand)

HandOfId(gs, id) ==
  IF Seated(gs, id) THEN gs.players[FindIndex(gs.players, id) + 1].hand
  ELSE <<>>

\* C35: every non-empty play the host accepts is made of pairwise distinct
\* cards of the acting player's hand.  A play put on the table in Playing is
\* that of the player at turn, out of that player's hand, and leaves the
\* hand; an ACTION_PLAY whose cards the sender does not hold, or that names
\* a card twice, leaves the state unchanged.
C35_PlayedFromHand ==
  [][ /\ ( /\ gameState.phase = Playing /\ gameState'.phase = Playing
           /\ gameState'.lastPlayedCards # gameState.lastPlayedCards
           /\ gameState'.lastPlayedCards # <<>> )
        => /\ AtTurn(gameState, gameState'.lastPlayerId)
           /\ HeldDistinct(gameState'.lastPlayedCards, TurnHand(gameState))
           /\ HandOfId(gameState', gameState'.lastPlayerId)
                = Without(TurnHand(gameState), gameState'.lastPlayedCards)
      /\ ( /\ last' # last /\ last'.op = "ACTION_PLAY"
           /\ Len(last'.cards) > 0
           /\ ~HeldDistinct(last'.cards, HandOfId(gameState, last'.from)) )
        => (UNCHANGED <<gameState, net>> /\ ~last'.applied) ]_vars

\* The bot at turn has nothing to beat: the table is empty or holds its own
\* last play.
BotLeads(gs) ==
  \/ gs.lastPlayedCards = <<>>
  \/ gs.lastPlayerId = gs.players[gs.currentTurnIndex + 1].id

HandTotal(gs) ==
  Len(gs.players[1].hand) + Len(gs.players[2].hand) + Len(gs.players[3].hand)

\* C36: with three bots at the table and every due timer firing, every
\* Playing state is eventually followed by GameOver, and the timer of a bot
\* that leads always puts at least one card on the table, so that the cards
\* held at the table become fewer.
C36_BotsFinish ==
  /\ (gameState.phase = Playing /\ AllBots) ~> (gameState.phase = GameOver)
  /\ [][ ( /\ gameState.phase = Playing /\ AllBots
            /\ BotLeads(gameState)
            /\ botTimer = <<gameState>> /\ botTimer' = <<>> )
          => /\ last'.op = "botTimer" /\ last'.applied
             /\ \/ gameState'.phase = GameOver
                \/ /\ gameState'.lastPlayedCards # <<>>
                   /\ AtTurn(gameState, gameState'.lastPlayerId)
             /\ HandTotal(gameState') < HandTotal(gameState) ]_vars

\* C37: in every Bidding state landlordId is null exactly when baseBid is 0,
\* and every step that enters Bidding, in a first round or in one restarted
\* after GameOver, gives landlordId null, baseBid 0, multiplier 1, winnerId
\* null and the role Peasant to every player.
C37_BiddingStartsClean ==
  /\ [](gameState.phase = Bidding
          => (gameState.landlordId = NULL <=> gameState.baseBid = 0))
  /\ [][ (gameState.phase # Bidding /\ gameState'.phase = Bidding)
           => /\ gameState'.landlordId = NULL
              /\ gameState'.baseBid = 0
              /\ gameState'.multiplier = 1
              /\ gameState'.winnerId = NULL
              /\ \A i \in 1..Len(gameState'.players) :
                   gameState'.players[i].role = Peasant ]_vars


\* A bid message of guest g with an amount that is not 0, 1, 2 or 3 is handled
\* by the host.
WideBidStep(g) ==
  /\ last'.op = "ACTION_BID" /\ last'.from = g
  /\ \E a \in WideBids :
       HostReceive(g, Msg("ACTION_BID", a, <<>>, <<>>), 0, 0, 0)

\* C38: in every state baseBid is 0, 1, 2 or 3, and a bid message whose
\* amount is none of these changes neither baseBid nor landlordId nor
\* currentTurnIndex.
C38_BidInRange ==
  /\ [](gameState.baseBid \in {0, 1, 2, 3})
  /\ [][ \A g \in Guests :
           WideBidStep(g)
           => /\ gameState'.baseBid = gameState.baseBid
              /\ gameState'.landlordId = gameState.landlordId
              /\ gameState'.currentTurnIndex = gameState.currentTurnIndex ]_vars


RECURSIVE BeansTotal(_)
BeansTotal(players) ==
  IF Len(players) = 0 THEN 0
  ELSE players[1].beans + BeansTotal(Tail(players))

\* C39: every step into GameOver at a table of three leaves the sum of the
\* three players' beans as it was, and whenever three players are seated
\* their beans add up to three times the initial balance.
C39_ZeroSum ==
  /\ [](Len(gameState.players) = 3
          => BeansTotal(gameState.players) = 3 * INITIAL_BEANS)
  /\ [][ ( /\ Len(gameState.players) = 3
           /\ gameState.phase # GameOver /\ gameState'.phase = GameOver )
         => BeansTotal(gameState'.players) = BeansTotal(gameState.players)
       ]_vars

====
